---- MODULE Spec2Model ----
(***************************************************************************)
(* Instant Harmonies: real-time just-intonation retuning of MIDI input.    *)
(*                                                                         *)
(* The module models                                                       *)
(*   - the MPE channel allocator            (js/tuning-mpe.js),            *)
(*   - the MTS capability state             (js/tuning-mts.js),            *)
(*   - the tuning mathematics               (js/tuning-core.js),           *)
(*   - the ensemble key detector            (js/key-detection.js),         *)
(*   - the orchestrator                     (js/main.js),                  *)
(*   - the internal sampler                 (js/audio-engine.js),          *)
(*   - the single-file prototype            (script5.js).                  *)
(* Each component has its own specification; all share the variables.      *)
(***************************************************************************)
EXTENDS Integers, Sequences, FiniteSets, TLC

VARIABLES
    \* ---- js/tuning-mpe.js
    channelPool,                \* free member channels, ascending
    activeNotes,                \* Map noteId -> channel
    channelUsageOrder,          \* noteIds, least recently used first
    pitchBendRangeInitialized,
    \* ---- the caller's view of the allocator
    lastCall,                   \* the last exported call and what it returned
    held,                       \* noteIds allocated and not yet released by the caller
    \* ---- js/key-detection.js
    currentKey,                 \* keyDetector.currentKey
    \* ---- the caller's view of the key detector and of the tuning functions
    probe,                      \* the last call of a pure function: arguments and result
    \* ---- js/main.js
    main,                       \* the orchestrator's globals, one field each
    \* ---- js/tuning-mts.js
    mts,                        \* the module's state, one field each
    \* ---- the environment
    now,                        \* Date.now(), in milliseconds
    device,                     \* the MIDI output device, as the messages sent to it leave it
    lastOp,                     \* the last handler run, its arguments, what it sent and returned
    \* ---- script5.js
    script,                     \* the page's script and the globals of script5.js, one field each
    \* ---- js/audio-engine.js
    audio                       \* the module's state, one field each

mpeVars == <<channelPool, activeNotes, channelUsageOrder, pitchBendRangeInitialized>>
drvVars == <<lastCall, held>>
keyVars == <<currentKey>>
engVars == <<main, mts, now, device, lastOp, script, audio>>
vars == <<mpeVars, drvVars, keyVars, probe, engVars>>

----------------------------------------------------------------------------
(* Generic helpers *)

Null == <<>>

Range(s) == {s[i] : i \in 1..Len(s)}

\* Array.prototype.indexOf / splice(index, 1): drop the first occurrence of x
RemoveFirst(s, x) ==
    IF \E i \in 1..Len(s) : s[i] = x
    THEN LET i == CHOOSE k \in 1..Len(s) : s[k] = x /\ \A j \in 1..(k-1) : s[j] # x
         IN  SubSeq(s, 1, i-1) \o SubSeq(s, i+1, Len(s))
    ELSE s

\* Map.delete
MapDelete(m, k) == [x \in (DOMAIN m) \ {k} |-> m[x]]

\* Map.set
MapSet(m, k, v) == [x \in (DOMAIN m) \cup {k} |-> IF x = k THEN v ELSE m[x]]

IntLess(a, b) == a < b

\* the value of a global that is an object used as a map, at a key it may lack
Lookup(map, key, default) == IF key \in DOMAIN map THEN map[key] ELSE default

\* a value computed once and used under a name: const x = value; ... x ... x ...
Bind(value, Rest(_)) == CHOOSE r \in {Rest(x) : x \in {value}} : TRUE

\* a | b on non-negative integers
RECURSIVE BitOr(_, _)
BitOr(a, b) ==
    IF a = 0 THEN b
    ELSE IF b = 0 THEN a
    ELSE (IF a % 2 = 1 \/ b % 2 = 1 THEN 1 ELSE 0) + 2 * BitOr(a \div 2, b \div 2)

Min(a, b) == IF a <= b THEN a ELSE b

Max(a, b) == IF a >= b THEN a ELSE b

----------------------------------------------------------------------------
(* js/tuning-mpe.js *)

MPE_MASTER_CHANNEL == 0

NumMemberChannels == 15

MPE_MEMBER_CHANNELS == [i \in 1..NumMemberChannels |-> i]

\* The state of the allocator as one record, so that a call is a function of it.
MpeState == [pool |-> channelPool, act |-> activeNotes, order |-> channelUsageOrder]

\* allocateChannel with the steal forgetting to delete the evicted note's entry
allocateChannelKeepsStolen(noteId, s) ==
    IF noteId = Null THEN [ret |-> [kind |-> "null"], st |-> s]
    ELSE IF noteId \in DOMAIN s.act
    THEN [ret |-> [kind |-> "number", channel |-> s.act[noteId]],
          st  |-> [s EXCEPT !.order = Append(RemoveFirst(s.order, noteId), noteId)]]
    ELSE IF Len(s.pool) > 0
    THEN [ret |-> [kind |-> "number", channel |-> Head(s.pool)],
          st  |-> [pool  |-> Tail(s.pool),
                   act   |-> MapSet(s.act, noteId, Head(s.pool)),
                   order |-> Append(s.order, noteId)]]
    ELSE IF Len(s.order) > 0
    THEN LET reusedNoteId == Head(s.order)
             channel == s.act[reusedNoteId]
         IN  [ret |-> [kind |-> "steal", channel |-> channel, reusedNoteId |-> reusedNoteId],
              st  |-> [pool  |-> s.pool,
                       act   |-> MapSet(s.act, noteId, channel),
                       order |-> Append(Tail(s.order), noteId)]]
    ELSE [ret |-> [kind |-> "null"], st |-> s]

\* allocateChannel with the steal taking the most recently used note (pop for shift)
allocateChannelStealsNewest(noteId, s) ==
    IF noteId = Null THEN [ret |-> [kind |-> "null"], st |-> s]
    ELSE IF noteId \in DOMAIN s.act
    THEN [ret |-> [kind |-> "number", channel |-> s.act[noteId]],
          st  |-> [s EXCEPT !.order = Append(RemoveFirst(s.order, noteId), noteId)]]
    ELSE IF Len(s.pool) > 0
    THEN [ret |-> [kind |-> "number", channel |-> Head(s.pool)],
          st  |-> [pool  |-> Tail(s.pool),
                   act   |-> MapSet(s.act, noteId, Head(s.pool)),
                   order |-> Append(s.order, noteId)]]
    ELSE IF Len(s.order) > 0
    THEN LET reusedNoteId == s.order[Len(s.order)]
             channel == s.act[reusedNoteId]
         IN  [ret |-> [kind |-> "steal", channel |-> channel, reusedNoteId |-> reusedNoteId],
              st  |-> [pool  |-> s.pool,
                       act   |-> MapSet(MapDelete(s.act, reusedNoteId), noteId, channel),
                       order |-> Append(SubSeq(s.order, 1, Len(s.order) - 1), noteId)]]
    ELSE [ret |-> [kind |-> "null"], st |-> s]

\* allocateChannel(noteId): the value returned and the allocator state afterwards.
\* ret.kind: "number" (a channel), "steal" ({channel, reusedNoteId}), "null".
allocateChannel(noteId, s) ==
    IF noteId = Null THEN [ret |-> [kind |-> "null"], st |-> s]
    ELSE IF noteId \in DOMAIN s.act
    THEN [ret |-> [kind |-> "number", channel |-> s.act[noteId]],
          st  |-> [s EXCEPT !.order = Append(RemoveFirst(s.order, noteId), noteId)]]
    ELSE IF Len(s.pool) > 0
    THEN [ret |-> [kind |-> "number", channel |-> Head(s.pool)],
          st  |-> [pool  |-> Tail(s.pool),
                   act   |-> MapSet(s.act, noteId, Head(s.pool)),
                   order |-> Append(s.order, noteId)]]
    ELSE IF Len(s.order) > 0
    THEN LET reusedNoteId == Head(s.order)
             channel == s.act[reusedNoteId]
         IN  [ret |-> [kind |-> "steal", channel |-> channel, reusedNoteId |-> reusedNoteId],
              st  |-> [pool  |-> s.pool,
                       act   |-> MapSet(MapDelete(s.act, reusedNoteId), noteId, channel),
                       order |-> Append(Tail(s.order), noteId)]]
    ELSE [ret |-> [kind |-> "null"], st |-> s]

\* releaseChannel(noteId): the allocator state afterwards.
releaseChannel(noteId, s) ==
    IF noteId = Null THEN s
    ELSE IF noteId \notin DOMAIN s.act THEN s
    ELSE LET channel == s.act[noteId]
         IN  [pool  |-> IF channel \notin Range(s.pool) /\ channel # MPE_MASTER_CHANNEL
                        THEN SortSeq(Append(s.pool, channel), IntLess)
                        ELSE s.pool,
              act   |-> MapDelete(s.act, noteId),
              order |-> RemoveFirst(s.order, noteId)]

\* null where a channel number is expected
NoChannel == -1

\* getChannelForNote(noteId): the channel, or null
getChannelForNote(noteId, s) ==
    IF noteId \in DOMAIN s.act THEN s.act[noteId] ELSE NoChannel

\* resetMPEState()
MpeInitial == [pool |-> MPE_MEMBER_CHANNELS, act |-> <<>>, order |-> <<>>]

SetMpe(s) ==
    /\ channelPool' = s.pool
    /\ activeNotes' = s.act
    /\ channelUsageOrder' = s.order

----------------------------------------------------------------------------
(* js/tuning-core.js                                                       *)
(* Cents are fixed-point numbers, CentUnit units to the cent, so that      *)
(* pitchBendToCents (bend * 200 / 8192 = bend * 25 / 1024) is exact.       *)

CentUnit == 1024

\* JavaScript's % takes the sign of the dividend
JsMod(a, b) == IF a >= 0 THEN a % b ELSE 0 - ((0 - a) % b)

\* Math.round(num / den) for den > 0: halves go up
RoundDiv(num, den) == (2 * num + den) \div (2 * den)

\* 1200 * Math.log2(n / d) in units, for the ratios of the table
Log2Cents ==
    <<1,1>> :> 0 @@ <<16,15>> :> 114413 @@ <<9,8>> :> 208804 @@ <<6,5>> :> 323217 @@
    <<5,4>> :> 395585 @@ <<4,3>> :> 509998 @@ <<45,32>> :> 604389 @@ <<3,2>> :> 718802 @@
    <<8,5>> :> 833215 @@ <<5,3>> :> 905583 @@ <<16,9>> :> 1019996 @@ <<9,5>> :> 1042019 @@
    <<15,8>> :> 1114387 @@ <<2,1>> :> 1228800

JI_RATIOS_major ==
    [i \in 0..12 |->
       CASE i = 0 -> <<1,1>>   [] i = 1 -> <<16,15>> [] i = 2 -> <<9,8>>  [] i = 3 -> <<6,5>>
         [] i = 4 -> <<5,4>>   [] i = 5 -> <<4,3>>   [] i = 6 -> <<45,32>> [] i = 7 -> <<3,2>>
         [] i = 8 -> <<8,5>>   [] i = 9 -> <<5,3>>   [] i = 10 -> <<9,5>>  [] i = 11 -> <<15,8>>
         [] OTHER -> <<2,1>>]

JI_RATIOS_minor == [JI_RATIOS_major EXCEPT ![10] = <<16,9>>]

NOTE_NAMES == <<"C", "C#", "D", "D#", "E", "F", "F#", "G", "G#", "A", "A#", "B">>

\* A key name: the note name and whether the name carries the "m" of a minor key
KeyName(root, minor) == <<NOTE_NAMES[root + 1], minor>>

KEY_ROOTS_major ==
    "C" :> 60 @@ "C#" :> 61 @@ "Db" :> 61 @@ "D" :> 62 @@ "D#" :> 63 @@ "Eb" :> 63 @@
    "E" :> 64 @@ "F" :> 65 @@ "F#" :> 66 @@ "Gb" :> 66 @@ "G" :> 67 @@ "G#" :> 68 @@
    "Ab" :> 68 @@ "A" :> 69 @@ "A#" :> 70 @@ "Bb" :> 70 @@ "B" :> 71

KEY_ROOTS_minor ==
    "C" :> 60 @@ "C#" :> 61 @@ "D" :> 62 @@ "D#" :> 63 @@ "Eb" :> 63 @@
    "E" :> 64 @@ "F" :> 65 @@ "F#" :> 66 @@ "G" :> 67 @@ "G#" :> 68 @@
    "A" :> 69 @@ "A#" :> 70 @@ "Bb" :> 70 @@ "B" :> 71

\* getKeyRoot with every unknown name read as C
getKeyRootAlwaysC(keyName) == 60

\* getKeyRoot(keyName): KEY_ROOTS[keyName] || 60
getKeyRoot(keyName) ==
    LET table == IF keyName[2] THEN KEY_ROOTS_minor ELSE KEY_ROOTS_major
    IN  IF keyName[1] \in DOMAIN table THEN table[keyName[1]] ELSE 60

\* isMinorKey(keyName): keyName.includes('m')
isMinorKey(keyName) == keyName[2]

\* ratios[interval] || 1.0
RatioOrUnison(ratios, interval) ==
    IF interval \in DOMAIN ratios THEN ratios[interval] ELSE <<1,1>>

\* a conversion that takes the bend range for one semitone up and down
centsToPitchBendOneSemitone(cents) ==
    LET pitchBend == RoundDiv(cents * (8192 \div CentUnit), 100)
    IN  IF pitchBend < -8192 THEN -8192 ELSE IF pitchBend > 8191 THEN 8191 ELSE pitchBend

\* centsToPitchBend(cents)
centsToPitchBend(cents) ==
    LET pitchBend == RoundDiv(cents * (8192 \div CentUnit), 200)
    IN  IF pitchBend < -8192 THEN -8192 ELSE IF pitchBend > 8191 THEN 8191 ELSE pitchBend

\* pitchBendToCents(pitchBend)
pitchBendToCents(pitchBend) == (pitchBend * 200) \div (8192 \div CentUnit)

\* the cents of the ratio itself, equal temperament not taken off
ratioToCentsAbsolute(ratio, interval) == Log2Cents[ratio]

\* ratioToCentsDeviation(ratio, interval)
ratioToCentsDeviation(ratio, interval) == Log2Cents[ratio] - interval * 100 * CentUnit

\* calculateJICentsForNote(midiNote, keyName)
calculateJICentsForNote(midiNote, keyName) ==
    LET keyRoot  == getKeyRoot(keyName)
        ratios   == IF isMinorKey(keyName) THEN JI_RATIOS_minor ELSE JI_RATIOS_major
        interval == JsMod(midiNote - keyRoot + 144, 12)
        ratio    == RatioOrUnison(ratios, interval)
    IN  ratioToCentsDeviation(ratio, interval)

\* calculateJIPitchBend(midiNote, keyName)
calculateJIPitchBend(midiNote, keyName) ==
    centsToPitchBend(calculateJICentsForNote(midiNote, keyName))

\* calculateScaleOctaveTuning(keyRoot, isMinor): 12 deviations in hundredths of a cent
\* (Math.round(deviation * 100) / 100), indexed by pitch class 0..11
calculateScaleOctaveTuning(keyRoot, isMinor) ==
    LET ratios == IF isMinor THEN JI_RATIOS_minor ELSE JI_RATIOS_major
    IN  [pc \in 0..11 |->
           LET interval  == JsMod(pc - JsMod(keyRoot, 12) + 12, 12)
               ratio     == RatioOrUnison(ratios, interval)
               deviation == ratioToCentsDeviation(ratio, interval)
           IN  RoundDiv(deviation * 100, CentUnit)]

----------------------------------------------------------------------------
(* js/key-detection.js                                                     *)
(* Profile values are in thousandths, weights in hundredths, thresholds in *)
(* thousandths: a profile score sum/total is carried as its numerator.     *)

ALBRECHT_SHANAHAN_PROFILES ==
    [major |-> <<238, 6, 111, 6, 137, 94, 16, 214, 9, 80, 8, 81>>,
     minor |-> <<220, 6, 104, 123, 19, 103, 12, 214, 62, 22, 61, 52>>]

TEMPERLEY_PROFILES ==
    [major |-> <<176, 14, 115, 19, 158, 108, 23, 168, 24, 86, 13, 94>>,
     minor |-> <<170, 20, 113, 148, 12, 110, 25, 179, 97, 16, 32, 79>>]

KRUMHANSL_KESSLER_PROFILES ==
    [major |-> <<152, 53, 83, 56, 105, 98, 60, 124, 57, 88, 55, 69>>,
     minor |-> <<142, 60, 79, 121, 58, 79, 57, 107, 89, 60, 75, 71>>]

\* ENSEMBLE_CONFIG.profiles, in the order of the object's keys
ENSEMBLE_CONFIG ==
    <<[data |-> ALBRECHT_SHANAHAN_PROFILES, weight |-> 45],
      [data |-> TEMPERLEY_PROFILES,         weight |-> 35],
      [data |-> KRUMHANSL_KESSLER_PROFILES, weight |-> 20]>>

\* the threshold selected by the sensitivity, in thousandths
Threshold(sensitivity) ==
    IF sensitivity = "high" THEN 30 ELSE IF sensitivity = "medium" THEN 40 ELSE 50

\* the threshold test of a detector that accepts every score
ReachesThresholdAlways(weighted, total, sensitivity) == TRUE

\* finalScore >= threshold, finalScore = weighted / (total * 1000 * 100)
ReachesThreshold(weighted, total, sensitivity) ==
    weighted >= Threshold(sensitivity) * total * 100

\* noteCounts[note % 12]++ over the buffer: the 12 counts, pitch class pc at pc + 1
CountOf(notes, pc) == Cardinality({i \in 1..Len(notes) : notes[i] % 12 = pc})

NoteCounts(notes) ==
    <<CountOf(notes, 0), CountOf(notes, 1), CountOf(notes, 2), CountOf(notes, 3),
      CountOf(notes, 4), CountOf(notes, 5), CountOf(notes, 6), CountOf(notes, 7),
      CountOf(notes, 8), CountOf(notes, 9), CountOf(notes, 10), CountOf(notes, 11)>>

\* rotated = [...profileData.slice(12 - root), ...profileData.slice(0, 12 - root)]
Rotated(profileData, root, i) == profileData[((i - root + 12) % 12) + 1]

\* score = sum over i of noteCounts[i] * rotated[i]
ProfileScore(profileData, root, noteCounts) ==
      noteCounts[1] * Rotated(profileData, root, 0)
    + noteCounts[2] * Rotated(profileData, root, 1)
    + noteCounts[3] * Rotated(profileData, root, 2)
    + noteCounts[4] * Rotated(profileData, root, 3)
    + noteCounts[5] * Rotated(profileData, root, 4)
    + noteCounts[6] * Rotated(profileData, root, 5)
    + noteCounts[7] * Rotated(profileData, root, 6)
    + noteCounts[8] * Rotated(profileData, root, 7)
    + noteCounts[9] * Rotated(profileData, root, 8)
    + noteCounts[10] * Rotated(profileData, root, 9)
    + noteCounts[11] * Rotated(profileData, root, 10)
    + noteCounts[12] * Rotated(profileData, root, 11)

\* the candidates in the order of the loops: root 0..11, major before minor
Candidate(k) == [root |-> (k - 1) \div 2, minor |-> (k - 1) % 2 = 1]

\* if (score > bestScore) { bestScore = score; bestKey = ... }
BetterOf(best, key, score) ==
    IF best.key = Null \/ score > best.score THEN [key |-> key, score |-> score] ELSE best

\* the loops over root and mode from candidate k on; each score and each new best
\* is computed once and bound to a name before the loop goes on
RECURSIVE ScanCandidates(_, _, _, _)
ScanCandidates(profile, noteCounts, k, best) ==
    IF k > 24
    THEN best
    ELSE CHOOSE result \in
           {ScanCandidates(profile, noteCounts, k + 1, next) :
              next \in {BetterOf(best, KeyName(Candidate(k).root, Candidate(k).minor), score) :
                 score \in {ProfileScore(IF Candidate(k).minor THEN profile.minor
                                                               ELSE profile.major,
                                         Candidate(k).root, noteCounts)}}} : TRUE

\* bestKey, bestScore of one profile (bestKey = null, bestScore = -Infinity at the start)
BestOfProfile(profile, noteCounts) ==
    ScanCandidates(profile, noteCounts, 1, [key |-> Null, score |-> 0])

\* profileResults, in the order of ENSEMBLE_CONFIG.profiles
ProfileResults(noteCounts) ==
    <<BestOfProfile(ENSEMBLE_CONFIG[1].data, noteCounts),
      BestOfProfile(ENSEMBLE_CONFIG[2].data, noteCounts),
      BestOfProfile(ENSEMBLE_CONFIG[3].data, noteCounts)>>

\* a confidence that takes the score for a share of the best profile value (0.25)
\* and adds the agreement bonus to it
ConfidencePercentOfShare(finalScore, agreement, total) ==
    RoundDiv(finalScore * 4 * (IF agreement = 3 THEN 12 ELSE IF agreement = 2 THEN 10 ELSE 8),
             total * 1000)

\* agreementBonus = agreement === 3 ? 1.2 : agreement === 2 ? 1.0 : 0.8;
\* confidencePercent = Math.round(finalScore * 400 * agreementBonus),
\* finalScore = the weighted score / (total * 1000 * 100)
ConfidencePercent(finalScore, agreement, total) ==
    RoundDiv(finalScore * 4 * (IF agreement = 3 THEN 12 ELSE IF agreement = 2 THEN 10 ELSE 8),
             total * 10000)

\* keyVotes and the choice of finalKey, finalScore and agreement from the results
VoteOf(results, total) ==
    LET voteCount(key) == Cardinality({p \in 1..3 : results[p].key = key})
        weighted(p, key) ==
            IF results[p].key = key THEN results[p].score * ENSEMBLE_CONFIG[p].weight ELSE 0
        weightedScore(key) == weighted(1, key) + weighted(2, key) + weighted(3, key)
        \* keyVotes is iterated in insertion order: the first maximum wins
        winner == CHOOSE p \in 1..3 :
                    /\ \A q \in 1..3 : weightedScore(results[q].key) <= weightedScore(results[p].key)
                    /\ \A q \in 1..(p - 1) :
                          weightedScore(results[q].key) < weightedScore(results[p].key)
        finalKey == results[winner].key
        finalScore == weightedScore(finalKey)
        agreement == voteCount(finalKey)
    IN  [total |-> total, finalKey |-> finalKey, finalScore |-> finalScore,
         agreement |-> agreement,
         confidencePercent |-> ConfidencePercent(finalScore, agreement, total)]

\* the vote of detectKeyEnsemble on a buffer of note numbers: the key with the
\* largest weighted score, that score, and how many profiles chose the key
EnsembleVote(notes) ==
    IF Len(notes) = 0
    THEN [total |-> 0, finalKey |-> Null, finalScore |-> 0, agreement |-> 0,
          confidencePercent |-> 0]
    ELSE CHOOSE vote \in
           {VoteOf(results, Len(notes)) :
              results \in {ProfileResults(noteCounts) :
                 noteCounts \in {NoteCounts(notes)}}} : TRUE

\* the end of detectKeyEnsemble, given the vote and the detector's currentKey:
\* what is returned and the currentKey that is left
DecideKey(vote, sensitivity, current) ==
    IF vote.total = 0
    THEN [ret |-> [kind |-> "null"], currentKey |-> current]
    ELSE IF ReachesThreshold(vote.finalScore, vote.total, sensitivity)
            /\ vote.finalKey # current
    THEN [ret |-> [kind |-> "estimate", key |-> vote.finalKey,
                   confidence |-> vote.confidencePercent, agreement |-> vote.agreement],
          currentKey |-> vote.finalKey]
    ELSE [ret |-> [kind |-> "null"], currentKey |-> current]

\* detectKeyEnsemble(noteBuffer, sensitivity)
detectKeyEnsemble(notes, sensitivity, current) ==
    DecideKey(EnsembleVote(notes), sensitivity, current)

----------------------------------------------------------------------------
(* The MIDI output device: what the messages sent to it make of it.  A     *)
(* short message is its three bytes; a tuning message is its kind and the  *)
(* data bytes that carry the tuning.                                       *)

Short(status, data1, data2) ==
    [kind |-> "short", status |-> status, data1 |-> data1, data2 |-> data2]

\* a message that is a system exclusive message
IsSysEx(msg) == msg.kind \in {"scaleOctave", "singleNote", "inquiry"}

\* no scale/octave entry retunes a pitch class: the 14-bit value of 0 cents
ScaleCenter == 8192

DeviceInitial ==
    [sounding |-> {},                             \* <<channel, note>> switched on and not off
     bend |-> [ch \in 0..15 |-> 0],               \* pitch bend of each channel, -8192..8191
     rpn |-> [ch \in 0..15 |-> <<127, 127>>],     \* selected registered parameter
     bendRange |-> [ch \in 0..15 |-> 2],          \* pitch bend sensitivity, semitones
     scale |-> [pc \in 0..11 |-> ScaleCenter],    \* scale/octave tuning, 14 bits a pitch class
     noteTuning |-> <<>>,                         \* note -> <<semitone, msb, lsb>> once retuned
     unknown |-> 0,                               \* status bytes that start no channel message
     rejectsSysEx |-> FALSE]                      \* send() throws on a system exclusive message

\* a channel message arrives
ReceiveShort(dev, msg) ==
    LET command == (msg.status \div 16) * 16
        channel == msg.status % 16
    IN  CASE command = 144 /\ msg.data2 > 0 ->
               [dev EXCEPT !.sounding = @ \cup {<<channel, msg.data1>>}]
          [] command = 128 \/ (command = 144 /\ msg.data2 = 0) ->
               [dev EXCEPT !.sounding = @ \ {<<channel, msg.data1>>}]
          [] command = 224 ->
               [dev EXCEPT !.bend[channel] = msg.data2 * 128 + msg.data1 - 8192]
          [] command = 176 /\ msg.data1 \in {120, 123} ->
               [dev EXCEPT !.sounding = {sn \in @ : sn[1] # channel}]
          [] command = 176 /\ msg.data1 = 101 ->
               [dev EXCEPT !.rpn[channel] = <<msg.data2, @[2]>>]
          [] command = 176 /\ msg.data1 = 100 ->
               [dev EXCEPT !.rpn[channel] = <<@[1], msg.data2>>]
          [] command = 176 /\ msg.data1 = 6 /\ dev.rpn[channel] = <<0, 0>> ->
               [dev EXCEPT !.bendRange[channel] = msg.data2]
          [] command = 176 -> dev
          [] OTHER -> [dev EXCEPT !.unknown = 1]

\* a message arrives
Receive(dev, msg) ==
    CASE msg.kind = "short" -> ReceiveShort(dev, msg)
      [] msg.kind = "scaleOctave" ->
           [dev EXCEPT !.scale = [pc \in 0..11 |-> msg.data[pc][1] * 128 + msg.data[pc][2]]]
      [] msg.kind = "singleNote" ->
           [dev EXCEPT !.noteTuning = MapSet(@, msg.note, msg.data)]
      [] msg.kind = "inquiry" -> dev

\* midiOutput.send(message)
Send(e, msg) == [e EXCEPT !.device = Receive(@, msg), !.sent = Append(@, msg)]

\* midiOutput.send(message) throws
Throws(e, msg) == e.device.rejectsSysEx /\ IsSysEx(msg)

\* the messages of a list sent in order, from the i-th on
RECURSIVE SendFrom(_, _, _)
SendFrom(e, msgs, i) ==
    IF i > Len(msgs)
    THEN e
    ELSE Bind(Send(e, msgs[i]), LAMBDA next : SendFrom(next, msgs, i + 1))

----------------------------------------------------------------------------
(* js/audio-engine.js: the state of the sampler.  voices is activeNotes, a *)
(* pitch's entry being the number of voices that sound at it; a stopped    *)
(* voice (0.15 s of release) sounds no longer.  ready says that the audio  *)
(* context exists and the samples are loaded.                              *)

AudioInitial ==
    [ready |-> FALSE, voices |-> <<>>, sustainPedalDown |-> FALSE, sustainedNotes |-> {}]

\* playNote(note, velocity, pitchBend)
playNote(a, note) ==
    IF ~a.ready THEN a
    ELSE [a EXCEPT !.voices = MapSet(@, note, Lookup(@, note, 0) + 1)]

\* a stopNote that fades the oldest voice of the pitch only
stopNoteOldestVoice(a, note) ==
    IF note \notin DOMAIN a.voices \/ ~a.ready THEN a
    ELSE [a EXCEPT !.voices[note] = IF @ > 0 THEN @ - 1 ELSE 0]

\* stopNote(note)
stopNote(a, note) ==
    IF note \notin DOMAIN a.voices \/ ~a.ready THEN a
    ELSE [a EXCEPT !.voices[note] = 0]

\* sustainedNotes.forEach(note => stopNote(note)), over the notes of a set
RECURSIVE StopAll(_, _)
StopAll(a, notes) ==
    IF notes = {} THEN a
    ELSE LET note == CHOOSE n \in notes : TRUE
         IN  StopAll(stopNote(a, note), notes \ {note})

\* releaseSustainedNotes()
releaseSustainedNotes(a) ==
    [StopAll(a, a.sustainedNotes) EXCEPT !.sustainedNotes = {}]

\* setSustainPedal(isDown)
setSustainPedal(a, isDown) ==
    IF a.sustainPedalDown /\ ~isDown
    THEN releaseSustainedNotes([a EXCEPT !.sustainPedalDown = isDown])
    ELSE [a EXCEPT !.sustainPedalDown = isDown]

\* addSustainedNote(note)
addSustainedNote(a, note) == [a EXCEPT !.sustainedNotes = @ \cup {note}]

\* reset()
audioReset(a) ==
    [a EXCEPT !.sustainPedalDown = FALSE, !.sustainedNotes = {}, !.voices = <<>>]

----------------------------------------------------------------------------
(* The running program as one record e: the globals of main.js (e.main),   *)
(* the state of tuning-mts.js (e.mts) and of tuning-mpe.js (e.mpe,         *)
(* e.pitchBendRangeInitialized), keyDetector.currentKey, the clock, the    *)
(* device, the sampler (e.audio), the messages the running handler has     *)
(* sent so far (e.sent) and the value the last function returned (e.ret).  *)
(* e.main.outputMode is the checked outputMode radio button and            *)
(* e.main.selectedOutput tells whether an output device is selected.       *)

Eng ==
    [main |-> main, mts |-> mts, mpe |-> MpeState,
     pitchBendRangeInitialized |-> pitchBendRangeInitialized,
     currentKey |-> currentKey, now |-> now, device |-> device, audio |-> audio,
     sent |-> <<>>, ret |-> [kind |-> "none"]]

SetEng(e) ==
    /\ main' = e.main
    /\ mts' = e.mts
    /\ SetMpe(e.mpe)
    /\ pitchBendRangeInitialized' = e.pitchBendRangeInitialized
    /\ currentKey' = e.currentKey
    /\ now' = e.now
    /\ device' = e.device
    /\ audio' = e.audio

Failure == [kind |-> "result", success |-> FALSE]
Success == [kind |-> "result", success |-> TRUE]

----------------------------------------------------------------------------
(* js/tuning-mts.js                                                        *)

\* Math.min(99.9939, fractionCents), in units
FractionCap == 102393

\* centsToMTSFrequencyData without Math.min(99.9939, fractionCents)
centsToMTSFrequencyDataUncapped(baseMidiNote, centsOffset) ==
    LET totalCents == baseMidiNote * 100 * CentUnit + centsOffset
        semitone == totalCents \div (100 * CentUnit)
        fractionCents == Max(0, totalCents - semitone * 100 * CentUnit)
        fraction14bit == (fractionCents * 16383 + 50 * CentUnit) \div (100 * CentUnit)
        fractionClamped == Max(0, Min(16383, fraction14bit))
    IN  IF semitone < 0 THEN <<0, 0, 0>>
        ELSE IF semitone > 127 THEN <<127, 127, 126>>
        ELSE <<semitone % 128, (fractionClamped \div 128) % 128, fractionClamped % 128>>

\* centsToMTSFrequencyData(baseMidiNote, centsOffset): [semitone, fraction MSB, fraction LSB]
centsToMTSFrequencyData(baseMidiNote, centsOffset) ==
    LET totalCents == baseMidiNote * 100 * CentUnit + centsOffset
        semitone == totalCents \div (100 * CentUnit)
        fractionCents == Max(0, totalCents - semitone * 100 * CentUnit)
        fraction14bit == IF fractionCents > FractionCap
                         THEN 16382
                         ELSE (fractionCents * 16383 + 50 * CentUnit) \div (100 * CentUnit)
        fractionClamped == Max(0, Min(16383, fraction14bit))
    IN  IF semitone < 0 THEN <<0, 0, 0>>
        ELSE IF semitone > 127 THEN <<127, 127, 126>>
        ELSE <<semitone % 128, (fractionClamped \div 128) % 128, fractionClamped % 128>>

\* buildSingleNoteTuning(noteNumber, centsOffset): F0 7F 7F 08 02 00 01 note data F7
buildSingleNoteTuning(noteNumber, centsOffset) ==
    [kind |-> "singleNote", note |-> noteNumber % 128,
     data |-> centsToMTSFrequencyData(noteNumber, centsOffset)]

\* the loop body of buildScaleOctaveTuning2Byte without Math.max(-100, Math.min(100, cents))
\* and without the clamp of the 14-bit value
ScaleOctaveValueUnclamped(cents) == RoundDiv((cents + 10000) * 16383, 20000)

\* valueClamped of the loop body of buildScaleOctaveTuning2Byte, cents in
\* hundredths of a cent
ScaleOctaveValue(cents) ==
    LET clampedCents == Max(-10000, Min(10000, cents))
        value14bit == RoundDiv((clampedCents + 10000) * 16383, 20000)
    IN  Max(0, Min(16383, value14bit))

\* msb, lsb of the loop body
ScaleOctaveEntry(cents) ==
    <<(ScaleOctaveValue(cents) \div 128) % 128, ScaleOctaveValue(cents) % 128>>

\* buildScaleOctaveTuning2Byte(centsArray): F0 7F 7F 08 09 03 7F 7F and an
\* <<msb, lsb>> for each of the 12 pitch classes; centsArray in hundredths of a cent
buildScaleOctaveTuning2Byte(centsArray) ==
    [kind |-> "scaleOctave",
     data |-> [pc \in 0..11 |-> ScaleOctaveEntry(centsArray[pc])]]

EqualTemperament == [pc \in 0..11 |-> 0]

\* sendScaleOctaveTuning(midiOutput, centsArray)
sendScaleOctaveTuning(e, centsArray) ==
    IF ~e.main.selectedOutput
    THEN [e EXCEPT !.ret = Failure]
    ELSE IF Throws(e, buildScaleOctaveTuning2Byte(centsArray))
    THEN \* catch (error)
         [e EXCEPT !.ret = Failure]
    ELSE [Send(e, buildScaleOctaveTuning2Byte(centsArray))
            EXCEPT !.mts.currentScaleOctaveTuning = centsArray, !.ret = Success]

\* resetMTSDetection()
resetMTSDetection(e) == [e EXCEPT !.mts.mtsDetectionAttempted = FALSE]

\* resetToEqualTemperament(midiOutput)
resetToEqualTemperament(e) ==
    IF e.main.selectedOutput /\ e.mts.mtsSupported
    THEN sendScaleOctaveTuning(e, EqualTemperament)
    ELSE e

\* a single-note tuning whose failure gives MTS up for good
applySingleNoteTuningDemotes(e, note, cents) ==
    IF ~e.main.selectedOutput \/ ~e.mts.mtsSupported
    THEN [e EXCEPT !.ret = Failure]
    ELSE IF Throws(e, buildSingleNoteTuning(note, cents))
    THEN [e EXCEPT !.ret = Failure, !.mts.mtsSupported = FALSE,
                   !.mts.mtsFallbackRequested = TRUE, !.mts.currentTuningMode = "MPE"]
    ELSE [Send(e, buildSingleNoteTuning(note, cents)) EXCEPT !.ret = Success]

\* applySingleNoteTuning(midiOutput, note, cents)
applySingleNoteTuning(e, note, cents) ==
    IF ~e.main.selectedOutput \/ ~e.mts.mtsSupported
    THEN [e EXCEPT !.ret = Failure]
    ELSE IF Throws(e, buildSingleNoteTuning(note, cents))
    THEN \* catch (error)
         [e EXCEPT !.ret = Failure]
    ELSE [Send(e, buildSingleNoteTuning(note, cents)) EXCEPT !.ret = Success]

\* applyJITuningForKey(midiOutput, keyRoot, isMinor)
applyJITuningForKey(e, keyRoot, isMinor) ==
    IF ~e.main.selectedOutput
    THEN [e EXCEPT !.ret = Failure]
    ELSE IF e.mts.mtsSupported /\ ~e.mts.mtsFallbackRequested
    THEN sendScaleOctaveTuning(e, calculateScaleOctaveTuning(keyRoot, isMinor))
    ELSE [e EXCEPT !.ret = Failure]

----------------------------------------------------------------------------
(* js/tuning-mpe.js: the functions that send                               *)

\* the six messages per member channel that set RPN 0 to 2 semitones
PitchBendRangeMessages(channel) ==
    <<Short(BitOr(176, channel), 101, 0), Short(BitOr(176, channel), 100, 0),
      Short(BitOr(176, channel), 6, 2), Short(BitOr(176, channel), 38, 0),
      Short(BitOr(176, channel), 101, 127), Short(BitOr(176, channel), 100, 127)>>

RECURSIVE PitchBendRangeFrom(_, _)
PitchBendRangeFrom(e, i) ==
    IF i > Len(MPE_MEMBER_CHANNELS)
    THEN e
    ELSE Bind(SendFrom(e, PitchBendRangeMessages(MPE_MEMBER_CHANNELS[i]), 1),
              LAMBDA next : PitchBendRangeFrom(next, i + 1))

\* initializePitchBendRange(midiOutput)
initializePitchBendRange(e) ==
    IF ~e.main.selectedOutput THEN [e EXCEPT !.ret = Failure]
    ELSE IF e.pitchBendRangeInitialized THEN [e EXCEPT !.ret = Success]
    ELSE [PitchBendRangeFrom(e, 1) EXCEPT !.pitchBendRangeInitialized = TRUE, !.ret = Success]

\* sendPitchBend(midiOutput, channel, bendValue)
sendPitchBend(e, channel, bendValue) ==
    IF ~e.main.selectedOutput \/ channel = NoChannel
    THEN e
    ELSE LET clamped == Max(-8192, Min(8191, bendValue))
             bend == clamped + 8192
         IN  Send(e, Short(BitOr(224, channel), bend % 128, (bend \div 128) % 128))

\* resetMPEState()
resetMPEState(e) ==
    [e EXCEPT !.mpe = MpeInitial, !.pitchBendRangeInitialized = FALSE]

----------------------------------------------------------------------------
(* js/tuning-mts.js: detection and the switches                            *)

\* a detection that does not look the stored preference up
detectMTSSupportIgnoresPreference(e) ==
    IF ~e.main.selectedOutput \/ e.mts.mtsDetectionAttempted
    THEN e
    ELSE IF ~e.main.sysexEnabled
    THEN initializePitchBendRange(
           [e EXCEPT !.mts.mtsDetectionAttempted = TRUE, !.mts.mtsSupported = FALSE,
                     !.mts.mtsFallbackRequested = TRUE, !.mts.currentTuningMode = "MPE"])
    ELSE sendScaleOctaveTuning(
           [e EXCEPT !.mts.mtsDetectionAttempted = TRUE, !.mts.mtsSupported = TRUE,
                     !.mts.currentTuningMode = "MTS"],
           EqualTemperament)

\* detectMTSSupport(midiOutput, sysexEnabled, initMPE, updateDisplay)
detectMTSSupport(e) ==
    IF ~e.main.selectedOutput \/ e.mts.mtsDetectionAttempted
    THEN e
    ELSE IF ~e.main.sysexEnabled \/ e.mts.tuningModePreference = "MPE"
    THEN initializePitchBendRange(
           [e EXCEPT !.mts.mtsDetectionAttempted = TRUE, !.mts.mtsSupported = FALSE,
                     !.mts.mtsFallbackRequested = TRUE, !.mts.currentTuningMode = "MPE"])
    ELSE sendScaleOctaveTuning(
           [e EXCEPT !.mts.mtsDetectionAttempted = TRUE, !.mts.mtsSupported = TRUE,
                     !.mts.currentTuningMode = "MTS"],
           EqualTemperament)

\* switchToMPEMode(midiOutput, initMPE, updateDisplay)
switchToMPEMode(e) ==
    Bind([e EXCEPT !.mts.mtsSupported = FALSE, !.mts.mtsFallbackRequested = TRUE,
                   !.mts.currentTuningMode = "MPE", !.mts.tuningModePreference = "MPE"],
         LAMBDA e1 : IF e1.main.selectedOutput THEN initializePitchBendRange(e1) ELSE e1)

\* switchToMTSMode without the test of the SysEx permission
switchToMTSModeUnchecked(e) ==
    Bind(sendScaleOctaveTuning(
           [e EXCEPT !.mts.mtsFallbackRequested = FALSE, !.mts.mtsSupported = TRUE,
                     !.mts.currentTuningMode = "MTS", !.mts.tuningModePreference = "none"],
           EqualTemperament),
         LAMBDA e1 :
           [(IF e1.currentKey # Null
             THEN applyJITuningForKey(e1, getKeyRoot(e1.currentKey), isMinorKey(e1.currentKey))
             ELSE e1)
            EXCEPT !.ret = [kind |-> "boolean", value |-> TRUE]])

\* switchToMTSMode(midiOutput, sysexEnabled, currentKey, updateDisplay)
switchToMTSMode(e) ==
    IF ~e.main.sysexEnabled
    THEN [e EXCEPT !.ret = [kind |-> "boolean", value |-> FALSE]]
    ELSE Bind(sendScaleOctaveTuning(
                [e EXCEPT !.mts.mtsFallbackRequested = FALSE, !.mts.mtsSupported = TRUE,
                          !.mts.currentTuningMode = "MTS", !.mts.tuningModePreference = "none"],
                EqualTemperament),
              LAMBDA e1 :
                [(IF e1.currentKey # Null
                  THEN applyJITuningForKey(e1, getKeyRoot(e1.currentKey),
                                           isMinorKey(e1.currentKey))
                  ELSE e1)
                 EXCEPT !.ret = [kind |-> "boolean", value |-> TRUE]])

----------------------------------------------------------------------------
(* js/main.js                                                              *)

DETECTION_WINDOW == 2000
MIN_NOTES_FOR_DETECTION == 8
PREDICTION_STALENESS_THRESHOLD == 60000

\* Object.values(predictiveJITable).some(q => q?.length > 0)
SomeQueued(table) == \E pitch \in DOMAIN table : Len(table[pitch]) > 0

\* systemState === 'following' || systemState === 'score_following_active'
scoreFollowingActive(e) ==
    e.main.systemState \in {"following", "score_following_active"}

\* resetPredictiveState()
resetPredictiveState(e) ==
    [e EXCEPT !.main.predictiveJITable = <<>>,
              !.main.predictiveTuningActive = FALSE,
              !.main.predictiveSeenIds = {}]

\* resetNoteTracking()
resetNoteTracking(e) ==
    [e EXCEPT !.main.activeNoteStacks = <<>>, !.main.nextNoteId = 1]

\* startSystem(), with an input selected or not and an output selected or not
startSystem(e, inputId, outputId) ==
    IF ~inputId
    THEN e
    ELSE Bind([resetMPEState(resetNoteTracking(resetPredictiveState(e)))
                 EXCEPT !.main.selectedOutput = outputId,
                        !.currentKey = Null,
                        !.main.keyDetectionBuffer = <<>>,
                        \* audio.initAudio(), the samples taken as loaded
                        !.audio.ready = IF e.main.outputMode = "internal" THEN TRUE ELSE @],
              LAMBDA e1 :
                Bind(IF e.main.outputMode = "external" /\ outputId
                     THEN detectMTSSupport(e1) ELSE e1,
                     LAMBDA e2 :
                       [(IF e.main.outputMode = "external" /\ outputId /\ ~e2.mts.mtsSupported
                         THEN initializePitchBendRange(e2)
                         ELSE e2)
                        EXCEPT !.main.isRunning = TRUE]))

\* stopSystem()
stopSystem(e) ==
    Bind([resetMPEState(resetNoteTracking(e))
            EXCEPT !.main.isRunning = FALSE,
                   !.main.keyDetectionBuffer = <<>>,
                   !.currentKey = Null,
                   !.audio = audioReset(@)],
         LAMBDA e1 :
           resetPredictiveState(
             resetMTSDetection(
               IF e1.main.selectedOutput THEN resetToEqualTemperament(e1) ELSE e1)))

\* the all-notes-off messages of panicStop, channel 0 to 15
AllNotesOffMessages == [channel \in 1..16 |-> Short(BitOr(176, channel - 1), 123, 0)]

\* panicStop()
panicStop(e) ==
    [(IF e.main.selectedOutput THEN SendFrom(e, AllNotesOffMessages, 1) ELSE e)
     EXCEPT !.main.keyDetectionBuffer = <<>>, !.audio = audioReset(@)]

\* the reactive part of applyTuning: the pitch bend of the note in the key in force
ReactiveTuning(e, note) ==
    LET key == IF scoreFollowingActive(e) /\ e.main.lastMusicXMLKey # Null
               THEN e.main.lastMusicXMLKey
               ELSE e.currentKey
    IN  [e EXCEPT !.ret = [kind |-> "tuned", source |-> "reactive",
                           pitchBend |-> IF key = Null THEN 0
                                         ELSE calculateJIPitchBend(note, key)]]

\* queue.shift() and the bookkeeping without "if (queue.length === 0) delete
\* predictiveJITable[note]"
ConsumeEntryKeepsQueue(e, note) ==
    LET queue == e.main.predictiveJITable[note]
        entry == Head(queue)
        table == MapSet(e.main.predictiveJITable, note, Tail(queue))
    IN  [e EXCEPT !.main.predictiveJITable = table,
                  !.main.predictiveSeenIds = IF entry.note_id # 0 THEN @ \ {entry.note_id} ELSE @,
                  !.main.predictiveTuningActive = SomeQueued(table)]

\* what queue.shift() and the bookkeeping after it leave: the entry is off its
\* queue and its note_id off predictiveSeenIds, an empty queue is deleted, and
\* predictiveTuningActive is recomputed
ConsumeEntry(e, note) ==
    LET queue == e.main.predictiveJITable[note]
        entry == Head(queue)
        table == IF Len(queue) = 1
                 THEN MapDelete(e.main.predictiveJITable, note)
                 ELSE MapSet(e.main.predictiveJITable, note, Tail(queue))
    IN  [e EXCEPT !.main.predictiveJITable = table,
                  !.main.predictiveSeenIds = IF entry.note_id # 0 THEN @ \ {entry.note_id} ELSE @,
                  !.main.predictiveTuningActive = SomeQueued(table)]

\* applyPredictiveTuning(entry, note, velocity, queue), after the bookkeeping
applyPredictiveTuning(e, entry, note) ==
    [e EXCEPT !.ret = [kind |-> "tuned", source |-> "predictive",
                       pitchBend |->
                         CASE entry.kind = "cents" -> centsToPitchBend(entry.cents)
                           [] entry.kind = "ratio" -> centsToPitchBend(Log2Cents[entry.ratio])
                           [] OTHER -> 0]]

\* applyTuning without the staleness test: every entry consumed is applied
applyTuningKeepsStale(e, note) ==
    IF e.main.predictiveTuningActive /\ Len(Lookup(e.main.predictiveJITable, note, <<>>)) > 0
    THEN Bind(ConsumeEntry(e, note),
              LAMBDA e1 : applyPredictiveTuning(e1, Head(e.main.predictiveJITable[note]), note))
    ELSE ReactiveTuning(e, note)

\* applyTuning(note, velocity, channel); e.ret is the tuned note's pitch bend
applyTuning(e, note) ==
    IF e.main.predictiveTuningActive /\ Len(Lookup(e.main.predictiveJITable, note, <<>>)) > 0
    THEN LET entry == Head(e.main.predictiveJITable[note])
         IN  IF /\ entry.timestamp # 0
                /\ e.now - entry.timestamp * 1000 > PREDICTION_STALENESS_THRESHOLD
             THEN Bind(ConsumeEntry(e, note), LAMBDA e1 : ReactiveTuning(e1, note))
             ELSE Bind(ConsumeEntry(e, note), LAMBDA e1 : applyPredictiveTuning(e1, entry, note))
    ELSE ReactiveTuning(e, note)

\* forwardNoteExternal(noteData, channel, isNoteOn), note-on
forwardNoteOnExternal(e, noteData, channel) ==
    LET usingMTS == e.mts.mtsSupported
        afterTuning(e3, outputChannel) ==
            \* the tuning messages, then the note-on
            Bind(IF noteData.pitchBend # 0 /\ usingMTS
                 THEN applySingleNoteTuning(e3, noteData.note,
                                            pitchBendToCents(noteData.pitchBend))
                 ELSE [e3 EXCEPT !.ret = Failure],
                 LAMBDA e4 :
                   Bind(IF ~usingMTS \/ (~e4.ret.success /\ noteData.pitchBend # 0)
                        THEN sendPitchBend(e4, outputChannel, noteData.pitchBend)
                        ELSE e4,
                        LAMBDA e5 :
                          [Send(e5, Short(BitOr(144, outputChannel), noteData.note,
                                          noteData.velocity))
                           EXCEPT !.ret = [kind |-> "forwarded", channel |-> outputChannel]]))
    IN  IF usingMTS
        THEN afterTuning(e, channel)
        ELSE Bind(IF ~e.pitchBendRangeInitialized THEN initializePitchBendRange(e) ELSE e,
                  LAMBDA e1 :
                    Bind(allocateChannel(noteData.noteId, e1.mpe),
                         LAMBDA allocationResult :
                           IF allocationResult.ret.kind = "steal"
                           THEN Bind(sendPitchBend([e1 EXCEPT !.mpe = allocationResult.st],
                                                   allocationResult.ret.channel, 0),
                                     LAMBDA e2 : afterTuning(e2, allocationResult.ret.channel))
                           ELSE IF allocationResult.ret.kind = "number"
                           THEN Bind([e1 EXCEPT !.mpe = allocationResult.st],
                                     LAMBDA e2 : afterTuning(e2, allocationResult.ret.channel))
                           ELSE \* console.warn(all MPE channels exhausted); return
                                [e1 EXCEPT !.ret = [kind |-> "dropped"]]))

\* forwardNoteExternal on a note-off with the channel released before its bend
\* is centred
forwardNoteOffReleasesFirst(e, noteData, channel) ==
    LET usingMTS == e.mts.mtsSupported
        ch == IF ~usingMTS /\ noteData.noteId # Null
              THEN getChannelForNote(noteData.noteId, e.mpe)
              ELSE NoChannel
        outputChannel == IF ch # NoChannel THEN ch ELSE channel
    IN  Bind(IF ~usingMTS THEN sendPitchBend(e, outputChannel, noteData.pitchBend) ELSE e,
             LAMBDA e1 :
               Bind(Send(e1, Short(BitOr(128, outputChannel), noteData.note, 0)),
                    LAMBDA e2 :
                      IF ~usingMTS
                      THEN Bind([e2 EXCEPT !.mpe = releaseChannel(noteData.noteId, @)],
                                LAMBDA e3 :
                                  [sendPitchBend(e3, outputChannel, 0)
                                     EXCEPT !.ret = [kind |-> "forwarded",
                                                     channel |-> outputChannel,
                                                     released |-> TRUE,
                                                     releasedAfter |-> Len(e3.sent)]])
                      ELSE [e2 EXCEPT !.ret = [kind |-> "forwarded", channel |-> outputChannel,
                                               released |-> FALSE, releasedAfter |-> 0]]))

\* forwardNoteExternal(noteData, channel, isNoteOn), note-off
forwardNoteOffExternal(e, noteData, channel) ==
    LET usingMTS == e.mts.mtsSupported
        ch == IF ~usingMTS /\ noteData.noteId # Null
              THEN getChannelForNote(noteData.noteId, e.mpe)
              ELSE NoChannel
        outputChannel == IF ch # NoChannel THEN ch ELSE channel
    IN  Bind(IF ~usingMTS THEN sendPitchBend(e, outputChannel, noteData.pitchBend) ELSE e,
             LAMBDA e1 :
               Bind(Send(e1, Short(BitOr(128, outputChannel), noteData.note, 0)),
                    LAMBDA e2 :
                      IF ~usingMTS
                      THEN Bind(sendPitchBend(e2, outputChannel, 0),
                                LAMBDA e3 :
                                  [e3 EXCEPT !.mpe = releaseChannel(noteData.noteId, @),
                                             !.ret = [kind |-> "forwarded",
                                                      channel |-> outputChannel,
                                                      released |-> TRUE,
                                                      releasedAfter |-> Len(e3.sent)]])
                      ELSE [e2 EXCEPT !.ret = [kind |-> "forwarded", channel |-> outputChannel,
                                               released |-> FALSE, releasedAfter |-> 0]]))

\* forwardNote(noteData, channel, isNoteOn)
forwardNote(e, noteData, channel, isNoteOn) ==
    IF e.main.outputMode = "external" /\ e.main.selectedOutput
    THEN IF isNoteOn THEN forwardNoteOnExternal(e, noteData, channel)
                     ELSE forwardNoteOffExternal(e, noteData, channel)
    ELSE IF e.main.outputMode = "internal"
    THEN [e EXCEPT !.audio = IF isNoteOn THEN playNote(@, noteData.note)
                                         ELSE stopNote(@, noteData.note),
                   !.ret = [kind |-> "internal"]]
    ELSE [e EXCEPT !.ret = [kind |-> "none"]]

\* the key detection of handleNoteOn: it runs on a buffer of at least
\* MIN_NOTES_FOR_DETECTION notes, and a returned estimate retunes the device's
\* scale unless a score is being followed
DetectOnNoteOn(e, sensitivity) ==
    IF Len(e.main.keyDetectionBuffer) >= MIN_NOTES_FOR_DETECTION
    THEN Bind(detectKeyEnsemble([i \in 1..Len(e.main.keyDetectionBuffer) |->
                                    e.main.keyDetectionBuffer[i].note],
                                sensitivity, e.currentKey),
              LAMBDA result :
                IF /\ result.ret.kind = "estimate"
                   /\ ~scoreFollowingActive(e)
                   /\ e.main.outputMode = "external"
                   /\ e.mts.mtsSupported
                   /\ ~e.mts.mtsFallbackRequested
                THEN applyJITuningForKey([e EXCEPT !.currentKey = result.currentKey],
                                         getKeyRoot(result.ret.key), isMinorKey(result.ret.key))
                ELSE [e EXCEPT !.currentKey = result.currentKey])
    ELSE e

\* a noteId made of the pitch alone
NoteIdOfPitch(counter, note) == <<1, note>>

\* `${nextNoteId++}_${note}`
NoteIdOf(counter, note) == <<counter, note>>

\* handleNoteOn(note, velocity, channel)
handleNoteOn(e, note, velocity, channel, sensitivity) ==
    LET noteId == NoteIdOf(e.main.nextNoteId, note)
        pushed == Append(e.main.keyDetectionBuffer, [note |-> note, time |-> e.now])
    IN  Bind([e EXCEPT !.main.nextNoteId = @ + 1,
                       !.main.activeNoteStacks =
                          MapSet(@, note, Append(Lookup(@, note, <<>>), noteId)),
                       !.main.keyDetectionBuffer =
                          SelectSeq(pushed, LAMBDA n : e.now - n.time < DETECTION_WINDOW)],
             LAMBDA e1 :
               Bind(DetectOnNoteOn(e1, sensitivity),
                    LAMBDA e2 :
                      Bind(applyTuning(e2, note),
                           LAMBDA e3 :
                             Bind(forwardNote(e3, [note |-> note, velocity |-> velocity,
                                                   pitchBend |-> e3.ret.pitchBend,
                                                   noteId |-> noteId],
                                              channel, TRUE),
                                  LAMBDA e4 :
                                    [e4 EXCEPT !.ret = [kind |-> "noteOn", noteId |-> noteId,
                                                        tuned |-> e3.ret,
                                                        forwarded |-> e4.ret]]))))

\* handleNoteOff(note, channel)
handleNoteOff(e, note, channel) ==
    LET stack == Lookup(e.main.activeNoteStacks, note, <<>>)
        noteId == IF Len(stack) > 0 THEN stack[Len(stack)] ELSE Null
    IN  Bind([e EXCEPT !.main.activeNoteStacks =
                          IF Len(stack) > 1 THEN MapSet(@, note, SubSeq(stack, 1, Len(stack) - 1))
                          ELSE MapDelete(@, note)],
             LAMBDA e1 :
               Bind(IF e1.main.outputMode = "internal" /\ e1.audio.sustainPedalDown
                    THEN [e1 EXCEPT !.audio = addSustainedNote(@, note),
                                    !.ret = [kind |-> "sustained"]]
                    ELSE forwardNote(e1, [note |-> note, velocity |-> 0, pitchBend |-> 0,
                                          noteId |-> noteId],
                                     channel, FALSE),
                    LAMBDA e2 :
                      [e2 EXCEPT !.ret = [kind |-> "noteOff", noteId |-> noteId,
                                          forwarded |-> e2.ret]]))

\* handleControlChange(controller, value, channel)
handleControlChange(e, controller, value, channel) ==
    IF controller # 64
    THEN e
    ELSE Bind(IF e.main.outputMode = "internal"
              THEN [e EXCEPT !.audio = setSustainPedal(@, value >= 64)]
              ELSE e,
              LAMBDA e1 :
                IF e1.main.outputMode = "external" /\ e1.main.selectedOutput
                THEN Send(e1, Short(BitOr(176, channel), controller, value))
                ELSE e1)

\* window.switchToMTSMode()
windowSwitchToMTSMode(e) == switchToMTSMode(e)

\* window.switchToMPEMode()
windowSwitchToMPEMode(e) == resetMPEState(switchToMPEMode(e))

\* entry.note_id of an entry that has none (undefined)
NoNoteId == -1

\* one entry of the table handed to window.applyJITuning, at its pitch
QueueEntry(acc, item) ==
    IF item.entry.note_id = NoNoteId
    THEN acc
    ELSE IF item.entry.note_id \in acc.e.main.predictiveSeenIds
    THEN acc
    ELSE [e |-> [acc.e EXCEPT
                   !.main.predictiveSeenIds = @ \cup {item.entry.note_id},
                   !.main.predictiveJITable =
                      MapSet(@, item.pitch, Append(Lookup(@, item.pitch, <<>>), item.entry))],
          musicXMLKey |-> IF item.entry.source = "musicxml_key_signature"
                             /\ item.entry.key # Null
                          THEN item.entry.key ELSE acc.musicXMLKey,
          musicXMLIsMinor |-> IF item.entry.source = "musicxml_key_signature"
                                 /\ item.entry.key # Null
                              THEN item.entry.is_minor ELSE acc.musicXMLIsMinor]

\* Object.entries(ratioTable).forEach(...): the entries in the order of the loops
RECURSIVE QueueEntries(_, _, _)
QueueEntries(acc, items, i) ==
    IF i > Len(items)
    THEN acc
    ELSE Bind(QueueEntry(acc, items[i]), LAMBDA next : QueueEntries(next, items, i + 1))

\* window.applyJITuning(ratioTable); items are the table's entries, each with its
\* pitch, in the order Object.entries and the arrays give them
applyJITuning(e, items) ==
    IF Len(items) = 0
    THEN resetPredictiveState(e)
    ELSE Bind(QueueEntries([e |-> e, musicXMLKey |-> Null, musicXMLIsMinor |-> FALSE],
                           items, 1),
              LAMBDA acc :
                Bind([acc.e EXCEPT
                        !.main.predictiveTuningActive = SomeQueued(acc.e.main.predictiveJITable),
                        !.main.lastMusicXMLKey =
                           IF acc.musicXMLKey # Null THEN acc.musicXMLKey ELSE @,
                        !.main.lastMusicXMLIsMinor =
                           IF acc.musicXMLKey # Null /\ acc.musicXMLKey # acc.e.main.lastMusicXMLKey
                           THEN acc.musicXMLIsMinor ELSE @],
                     LAMBDA e1 :
                       IF /\ acc.musicXMLKey # Null
                          /\ e1.main.predictiveTuningActive
                          /\ e1.main.outputMode = "external"
                          /\ e1.main.selectedOutput
                          /\ e1.mts.mtsSupported
                          /\ ~e1.mts.mtsFallbackRequested
                       THEN applyJITuningForKey(e1, getKeyRoot(acc.musicXMLKey),
                                                acc.musicXMLIsMinor)
                       ELSE e1))

----------------------------------------------------------------------------
(* script5.js, the single-file page (its first script; output mode 'midi'). *)
(* x is the running script: its globals (x.script), the device, the        *)
(* messages the running handler has sent (x.sent) and the value the last   *)
(* function returned (x.ret).                                              *)

\* note: null
NoNote == -1

\* Array.from({ length: 15 }, (_, i) => ({ channel: i + 2, inUse: false, note: null }))
MPE_CHANNELS == [i \in 1..15 |-> [channel |-> i + 1, inUse |-> FALSE, note |-> NoNote]]

ScriptInitial(page) ==
    [page |-> page, midiOutput |-> FALSE,
     MPE_CHANNELS |-> MPE_CHANNELS, activeNotesToMpeChannel |-> <<>>,
     notesUsingBend |-> {}, activeOnNotes |-> {}, keysDown |-> {},
     sustainPedal |-> FALSE, sustainedNotes |-> {},
     tuningSystem |-> "12tet", isTuningActive |-> FALSE, forcePbOnly |-> FALSE,
     sysExSupported |-> TRUE, currentTargetCents |-> [pc \in 0..11 |-> 0],
     targetCents |-> [pc \in 0..11 |-> 0], lastMtsSendMs |-> 0, avgTime |-> 500,
     lastDeviceId |-> 127]

Scr == [script |-> script, device |-> device, sent |-> <<>>, ret |-> NoChannel]

\* the three messages resetAllMidiState sends on a channel
ResetMessages(ch) ==
    <<Short(BitOr(176, ch), 120, 0), Short(BitOr(176, ch), 123, 0),
      Short(BitOr(224, ch), 0, 64)>>

RECURSIVE ResetFrom(_, _)
ResetFrom(x, ch) ==
    IF ch >= 16
    THEN x
    ELSE Bind(SendFrom(x, ResetMessages(ch), 1), LAMBDA next : ResetFrom(next, ch + 1))

\* resetAllMidiState()
resetAllMidiState(x) ==
    [(IF x.script.midiOutput THEN ResetFrom(x, 0) ELSE x)
     EXCEPT !.script.MPE_CHANNELS = [i \in 1..15 |-> [@[i] EXCEPT !.inUse = FALSE,
                                                                  !.note = NoNote]],
            !.script.activeNotesToMpeChannel = <<>>,
            !.script.notesUsingBend = {},
            !.script.sustainPedal = FALSE,
            !.script.keysDown = {},
            !.script.sustainedNotes = {}]

\* getMpeChannel(note); x.ret is the channel, or NoChannel for null
getMpeChannel(x, note) ==
    LET free == {i \in 1..15 : ~x.script.MPE_CHANNELS[i].inUse}
    IN  IF free # {}
        THEN LET i == CHOOSE j \in free : \A k \in free : j <= k
                 channel == x.script.MPE_CHANNELS[i].channel
             IN  [x EXCEPT !.script.MPE_CHANNELS[i].inUse = TRUE,
                           !.script.MPE_CHANNELS[i].note = note,
                           !.script.activeNotesToMpeChannel = MapSet(@, note, channel),
                           !.ret = channel]
        ELSE [x EXCEPT !.ret = NoChannel]

\* releaseMpeChannel(note)
releaseMpeChannel(x, note) ==
    IF note \notin DOMAIN x.script.activeNotesToMpeChannel
    THEN x
    ELSE LET channelNum == x.script.activeNotesToMpeChannel[note]
         IN  [x EXCEPT !.script.MPE_CHANNELS =
                          [i \in 1..15 |-> IF @[i].channel = channelNum
                                           THEN [@[i] EXCEPT !.inUse = FALSE, !.note = NoNote]
                                           ELSE @[i]],
                       !.script.activeNotesToMpeChannel = MapDelete(@, note)]

\* calculateTuning(note).cents
calculateTuning(x, note) ==
    IF x.script.tuningSystem # "ji" \/ ~x.script.isTuningActive
    THEN 0
    ELSE x.script.currentTargetCents[note % 12]

\* createMtsSysex(note, cents): F0 7F devId 08 02 00 01 note xx yy zz F7,
\* devId = lastDeviceId & 0x7F
createMtsSysex(x, note, cents) ==
    LET total == note * 100 * CentUnit + cents
        xx == Max(0, Min(127, total \div (100 * CentUnit)))
        frac == RoundDiv((total - xx * 100 * CentUnit) * (16384 \div CentUnit), 100)
    IN  [kind |-> "singleNote", note |-> note % 128,
         data |-> IF frac = 16384 THEN <<(xx + 1) % 128, 0, 0>>
                  ELSE <<xx % 128, (frac \div 128) % 128, frac % 128>>,
         deviceId |-> x.script.lastDeviceId % 128]

\* setPitchBendRangeAllChannels(semitones, cents), from channel ch on
RECURSIVE setPitchBendRangeFrom(_, _, _, _)
setPitchBendRangeFrom(x, semitones, cents, ch) ==
    IF ch >= 16
    THEN x
    ELSE Bind(SendFrom(x, <<Short(BitOr(176, ch), 101, 0), Short(BitOr(176, ch), 100, 0),
                            Short(BitOr(176, ch), 6, semitones % 128),
                            Short(BitOr(176, ch), 38, cents % 128),
                            Short(BitOr(176, ch), 101, 127), Short(BitOr(176, ch), 100, 127)>>,
                       1),
              LAMBDA next : setPitchBendRangeFrom(next, semitones, cents, ch + 1))

\* setPitchBendRangeAllChannels(semitones, cents)
setPitchBendRangeAllChannels(x, semitones, cents) ==
    IF ~x.script.midiOutput THEN x ELSE setPitchBendRangeFrom(x, semitones, cents, 1)

\* the identity request and the tuning dump request of afterOutputSelected; the
\* device of the model answers neither
ProbeMessages ==
    <<[kind |-> "inquiry", data |-> <<240, 126, 127, 6, 1, 247>>],
      [kind |-> "inquiry", data |-> <<240, 126, 127, 8, 0, 0, 247>>]>>

\* midiOutSelect 'change' listener; an input is selected
midiOutSelectChange(x, selected) ==
    Bind([resetAllMidiState(x) EXCEPT !.script.midiOutput = selected],
         LAMBDA x1 :
           IF selected
           THEN Bind(setPitchBendRangeAllChannels(x1, 1, 0),
                     LAMBDA x2 : SendFrom(Send(x2, Short(BitOr(176, 0), 122, 0)),
                                          ProbeMessages, 1))
           ELSE x1)

\* onMIDIMessage, cmd === 9 && vel > 0
onNoteOn(x, note, vel) ==
    LET cents == calculateTuning(x, note)
        bendValue == Max(0, Min(16383, RoundDiv(cents * (8192 \div CentUnit), 100) + 8192))
    IN  Bind([x EXCEPT !.script.activeOnNotes = @ \cup {note},
                       !.script.keysDown = @ \cup {note}],
             LAMBDA x1 :
               IF ~x1.script.midiOutput
               THEN x1
               ELSE Bind(getMpeChannel(x1, note),
                         LAMBDA x2 :
                           IF x2.ret = NoChannel
                           THEN x2
                           ELSE Bind(IF /\ x2.script.isTuningActive
                                        /\ (10 * cents > CentUnit \/ 10 * cents < 0 - CentUnit)
                                     THEN IF ~x2.script.forcePbOnly /\ x2.script.sysExSupported
                                          THEN Send(x2, createMtsSysex(x2, note, cents))
                                          ELSE [Send(x2, Short(BitOr(224, x2.ret),
                                                               bendValue % 128,
                                                               (bendValue \div 128) % 128))
                                                EXCEPT !.script.notesUsingBend = @ \cup {note}]
                                     ELSE x2,
                                     LAMBDA x3 :
                                       Send(x3, Short(BitOr(144, x2.ret), note, vel)))))

\* onMIDIMessage, cmd === 8 || (cmd === 9 && vel === 0)
onNoteOff(x, note) ==
    Bind([x EXCEPT !.script.activeOnNotes = @ \ {note},
                   !.script.keysDown = @ \ {note}],
         LAMBDA x1 :
           IF ~x1.script.midiOutput \/ note \notin DOMAIN x1.script.activeNotesToMpeChannel
           THEN x1
           ELSE LET assignedChannel == x1.script.activeNotesToMpeChannel[note]
                IN  Bind(Send(x1, Short(BitOr(128, assignedChannel), note, 0)),
                         LAMBDA x2 :
                           releaseMpeChannel(
                             IF note \in x2.script.notesUsingBend
                             THEN [Send(x2, Short(BitOr(224, assignedChannel), 0, 64))
                                   EXCEPT !.script.notesUsingBend = @ \ {note}]
                             ELSE x2,
                             note)))

----------------------------------------------------------------------------
(* The state after the page has loaded: initMIDI has been granted SysEx or *)
(* not, and localStorage holds the preference of an earlier session or not *)

MainInitial(sysexEnabled, systemState) ==
    [isRunning |-> FALSE, sysexEnabled |-> sysexEnabled, selectedOutput |-> FALSE,
     keyDetectionBuffer |-> <<>>, activeNoteStacks |-> <<>>, nextNoteId |-> 1,
     predictiveJITable |-> <<>>, predictiveTuningActive |-> FALSE, predictiveSeenIds |-> {},
     lastMusicXMLKey |-> Null, lastMusicXMLIsMinor |-> FALSE,
     systemState |-> systemState, outputMode |-> "external"]

MtsInitial(tuningModePreference) ==
    [mtsSupported |-> FALSE, mtsDetectionAttempted |-> FALSE, mtsFallbackRequested |-> FALSE,
     currentScaleOctaveTuning |-> EqualTemperament, currentTuningMode |-> "detecting",
     tuningModePreference |-> tuningModePreference]

\* no handler has run yet; left is the number of events still to come
Loaded(left) == [op |-> "load", left |-> left, ticks |-> 0]

\* the program is not run: the specifications of single modules leave it here
EngineIdle ==
    /\ main = MainInitial(FALSE, "no_client")
    /\ mts = MtsInitial("none")
    /\ now = 0
    /\ device = DeviceInitial
    /\ lastOp = Loaded(0)
    /\ script = ScriptInitial("main.js")
    /\ audio = AudioInitial

\* the velocity and the input channel of the notes played
NoteVelocity == 100
InputChannel == 0

\* JI_RATIOS of script5.js: the scale degrees that have a ratio
SCRIPT_JI_RATIOS ==
    [major |-> (0 :> <<1,1>> @@ 2 :> <<9,8>> @@ 4 :> <<5,4>> @@ 5 :> <<4,3>> @@
                7 :> <<3,2>> @@ 9 :> <<5,3>> @@ 11 :> <<15,8>>),
     minor |-> (0 :> <<1,1>> @@ 2 :> <<9,8>> @@ 3 :> <<6,5>> @@ 5 :> <<4,3>> @@
                7 :> <<3,2>> @@ 8 :> <<8,5>> @@ 10 :> <<9,5>>)]

\* keyFinder.runAnalysis() once it has settled on a new key: the targets of the
\* twelve pitch classes
setKeyTargets(x, rootNote, scale) ==
    [x EXCEPT !.script.targetCents =
        [i \in 0..11 |->
           LET offset == (i - (rootNote % 12) + 12) % 12
           IN  IF offset \in DOMAIN SCRIPT_JI_RATIOS[scale]
               THEN Log2Cents[SCRIPT_JI_RATIOS[scale][offset]] - offset * 100 * CentUnit
               ELSE 0]]

\* dynamicFactor = Math.min(0.3, 0.05 + (100 / tempoTracker.avgTime) * 0.15),
\* as numerator and denominator
dynamicFactor(avgTime) ==
    IF 10 * (avgTime + 300) > 3 * 20 * avgTime
    THEN <<3, 10>>
    ELSE <<avgTime + 300, 20 * avgTime>>

\* a smoothing step that jumps to the target
SmoothStepWhole(distance, avgTime) == distance

\* (target - current) * dynamicFactor, to the nearest unit
SmoothStep(distance, avgTime) ==
    RoundDiv(distance * dynamicFactor(avgTime)[1], dynamicFactor(avgTime)[2])

\* the body of the loop over activeOnNotes for one held note
RetuneHeldNote(x, note) ==
    LET cents == x.script.currentTargetCents[note % 12]
    IN  IF /\ (10 * cents > CentUnit \/ 10 * cents < 0 - CentUnit)
           /\ note \in DOMAIN x.script.activeNotesToMpeChannel
        THEN IF ~x.script.forcePbOnly /\ x.script.sysExSupported
             THEN Send(x, createMtsSysex(x, note, cents))
             ELSE IF note \in x.script.notesUsingBend
             THEN LET bendValue == RoundDiv(cents * (8192 \div CentUnit), 100) + 8192
                  IN  Send(x, Short(BitOr(224, x.script.activeNotesToMpeChannel[note]),
                                    bendValue % 128, (bendValue \div 128) % 128))
             ELSE x
        ELSE x

\* for (const noteStr in activeOnNotes): integer keys come in ascending order
RECURSIVE RetuneHeld(_, _)
RetuneHeld(x, notes) ==
    IF notes = {}
    THEN x
    ELSE LET note == CHOOSE n \in notes : \A m \in notes : n <= m
         IN  Bind(RetuneHeldNote(x, note), LAMBDA next : RetuneHeld(next, notes \ {note}))

\* smoothingLoop() with performance.now() = nowMs; x.ret is 1 when the held
\* notes were retuned, 0 when they were not
smoothingLoop(x, nowMs) ==
    LET okToSend == nowMs - x.script.lastMtsSendMs > 33
    IN  Bind([x EXCEPT !.script.currentTargetCents =
                [i \in 0..11 |-> @[i] + SmoothStep(x.script.targetCents[i] - @[i],
                                                   x.script.avgTime)]],
             LAMBDA x1 :
               IF x1.script.isTuningActive /\ x1.script.midiOutput /\ okToSend
               THEN [RetuneHeld(x1, x1.script.activeOnNotes)
                       EXCEPT !.script.lastMtsSendMs = nowMs, !.ret = 1]
               ELSE [x1 EXCEPT !.ret = 0])

\* a handler of main.js has run from Eng to e; lastOp keeps what it was called
\* with, what it found (the predictive table, the time, the channels in use),
\* what it sent and what it returned
Ran(e, op, arg) ==
    /\ script.page = "main.js"
    /\ SetEng(e)
    /\ lastOp' = [op |-> op, arg |-> arg, sent |-> e.sent, ret |-> e.ret,
                  before |-> [predictiveJITable |-> main.predictiveJITable, now |-> now,
                              channelPool |-> channelPool, activeNotes |-> activeNotes,
                              channelUsageOrder |-> channelUsageOrder,
                              mtsSupported |-> mts.mtsSupported],
                  left |-> lastOp.left - 1, ticks |-> lastOp.ticks]
    /\ UNCHANGED script

Handled(e, op, arg) == Ran(e, op, arg) /\ UNCHANGED <<drvVars, probe>>

\* a listener of script5.js has run from Scr to x
ScriptRan(x, op, arg) ==
    /\ script.page = "script5.js"
    /\ script' = x.script
    /\ device' = x.device
    /\ lastOp' = [op |-> op, arg |-> arg, sent |-> x.sent, ret |-> x.ret,
                  before |-> [MPE_CHANNELS |-> script.MPE_CHANNELS,
                              activeNotesToMpeChannel |-> script.activeNotesToMpeChannel],
                  left |-> lastOp.left - 1, ticks |-> lastOp.ticks]
    /\ UNCHANGED <<mpeVars, drvVars, keyVars, main, mts, now, audio>>

----------------------------------------------------------------------------
(* The allocator driven directly through its exported functions.          *)
(* The orchestrator mints noteIds as `${nextNoteId++}_${note}`, so fresh   *)
(* ids come in increasing order.  Calls other than a fresh allocation (a   *)
(* release, a second allocateChannel of an id, a reset) are budgeted, and  *)
(* they pick the least or the most recently used note, or a note that has  *)
(* lost its channel to a steal.                                            *)

MaxAllocIds == 17
MaxOtherCalls == 2

\* `${n}_${note}`
AllocId(n) == <<n, 60>>

Stole(ret) == IF ret.kind = "steal" THEN 1 ELSE 0

Candidates ==
    (held \ DOMAIN activeNotes)
      \cup (IF Len(channelUsageOrder) > 0
            THEN {channelUsageOrder[1], channelUsageOrder[Len(channelUsageOrder)]}
            ELSE {})

\* what the allocator's exported functions never touch
outsideMPE == <<keyVars, probe, engVars>>

IdleProbe == [fn |-> "none"]

OutsideMPEInit ==
    /\ currentKey = Null
    /\ probe = IdleProbe
    /\ EngineIdle

InitMPE ==
    /\ channelPool = MPE_MEMBER_CHANNELS
    /\ activeNotes = <<>>
    /\ channelUsageOrder = <<>>
    /\ pitchBendRangeInitialized = FALSE
    /\ lastCall = [op |-> "init", id |-> Null, ret |-> [kind |-> "null"],
                   fresh |-> 0, others |-> 0, steals |-> 0, peak |-> 0]
    /\ held = {}
    /\ OutsideMPEInit

AllocFresh ==
    /\ lastCall.fresh < MaxAllocIds
    /\ LET id == AllocId(lastCall.fresh + 1)
           r  == allocateChannel(id, MpeState)
       IN  /\ SetMpe(r.st)
           /\ lastCall' = [lastCall EXCEPT !.op = "allocate", !.id = id, !.ret = r.ret,
                                           !.fresh = @ + 1,
                                           !.steals = @ + Stole(r.ret),
                                           !.peak = Max(@, Cardinality(held \cup {id}))]
           /\ held' = held \cup {id}
    /\ UNCHANGED <<pitchBendRangeInitialized, outsideMPE>>

AllocAgain ==
    /\ lastCall.others < MaxOtherCalls
    /\ \E id \in Candidates :
         LET r == allocateChannel(id, MpeState)
         IN  /\ SetMpe(r.st)
             /\ lastCall' = [lastCall EXCEPT !.op = "allocate", !.id = id, !.ret = r.ret,
                                             !.others = @ + 1,
                                             !.steals = @ + Stole(r.ret)]
    /\ UNCHANGED <<pitchBendRangeInitialized, held, outsideMPE>>

Release ==
    /\ lastCall.others < MaxOtherCalls
    /\ \E id \in Candidates :
         /\ SetMpe(releaseChannel(id, MpeState))
         /\ lastCall' = [lastCall EXCEPT !.op = "release", !.id = id,
                                         !.ret = [kind |-> "null"], !.others = @ + 1]
         /\ held' = held \ {id}
    /\ UNCHANGED <<pitchBendRangeInitialized, outsideMPE>>

\* resetMPEState(), called together with resetNoteTracking() (nextNoteId = 1)
ResetMPE ==
    /\ lastCall.others < MaxOtherCalls
    /\ SetMpe(MpeInitial)
    /\ pitchBendRangeInitialized' = FALSE
    /\ lastCall' = [lastCall EXCEPT !.op = "reset", !.id = Null, !.ret = [kind |-> "null"],
                                    !.fresh = 0, !.others = @ + 1,
                                    !.steals = 0, !.peak = 0]
    /\ held' = {}
    /\ UNCHANGED outsideMPE

NextMPE == AllocFresh \/ AllocAgain \/ Release \/ ResetMPE

SpecMPE == InitMPE /\ [][NextMPE]_vars

----------------------------------------------------------------------------
(* C1 *)

Owned == {activeNotes[id] : id \in DOMAIN activeNotes}

NoSharedChannel ==
    \A a, b \in DOMAIN activeNotes : a # b => activeNotes[a] # activeNotes[b]

\* The step is a call of allocateChannel with an id that owns no channel.
FreshAllocation ==
    /\ lastCall' # lastCall
    /\ lastCall'.op = "allocate"
    /\ lastCall'.id \notin DOMAIN activeNotes

\* C1: with at most 15 notes held every held noteId owns a member channel of its
\* own; an allocation made while a member channel is free steals nothing; the
\* 16th allocation with none released steals exactly once, the new note gets
\* exactly the channel the evicted note owned, and no channel ever has two owners.
C1_DistinctUntilSteal ==
    /\ [](/\ NoSharedChannel
          /\ Owned \subseteq Range(MPE_MEMBER_CHANNELS)
          /\ lastCall.peak <= NumMemberChannels
                => (lastCall.steals = 0 /\ held = DOMAIN activeNotes)
          /\ (lastCall.fresh = NumMemberChannels + 1 /\ lastCall.others = 0)
                => (lastCall.steals = 1 /\ lastCall.ret.kind = "steal"))
    /\ [][FreshAllocation =>
            IF Cardinality(DOMAIN activeNotes) < NumMemberChannels
            THEN /\ lastCall'.ret.kind = "number"
                 /\ lastCall'.ret.channel \notin Owned
                 /\ activeNotes' = MapSet(activeNotes, lastCall'.id, lastCall'.ret.channel)
            ELSE /\ lastCall'.ret.kind = "steal"
                 /\ lastCall'.ret.reusedNoteId \in DOMAIN activeNotes
                 /\ lastCall'.ret.channel = activeNotes[lastCall'.ret.reusedNoteId]
                 /\ DOMAIN activeNotes' =
                       (DOMAIN activeNotes \ {lastCall'.ret.reusedNoteId}) \cup {lastCall'.id}
                 /\ activeNotes'[lastCall'.id] = lastCall'.ret.channel
                 /\ \A id \in DOMAIN activeNotes \ {lastCall'.ret.reusedNoteId} :
                       activeNotes'[id] = activeNotes[id]]_vars

\* the 16th note has been allocated with none released, and it stole a channel
C1_Witness ==
    /\ lastCall.fresh = NumMemberChannels + 1
    /\ lastCall.others = 0
    /\ lastCall.op = "allocate"
    /\ lastCall.ret.kind = "steal"
    /\ Cardinality(held) = NumMemberChannels + 1

----------------------------------------------------------------------------
(* The tuning functions called directly: every note of a range, in every   *)
(* key the detector can name.                                              *)

MinTuningNote == 48
MaxTuningNote == 84

outsideTuning == <<mpeVars, drvVars, keyVars, engVars>>

OutsideTuningInit ==
    /\ channelPool = MPE_MEMBER_CHANNELS
    /\ activeNotes = <<>>
    /\ channelUsageOrder = <<>>
    /\ pitchBendRangeInitialized = FALSE
    /\ lastCall = [op |-> "init", id |-> Null, ret |-> [kind |-> "null"],
                   fresh |-> 0, others |-> 0, steals |-> 0, peak |-> 0]
    /\ held = {}
    /\ currentKey = Null
    /\ EngineIdle

InitTuning ==
    /\ probe = IdleProbe
    /\ OutsideTuningInit

CallJICentsForNote ==
    /\ \E midiNote \in MinTuningNote..MaxTuningNote, root \in 0..11, minor \in BOOLEAN :
         probe' = [fn |-> "calculateJICentsForNote",
                   midiNote |-> midiNote, root |-> root, minor |-> minor,
                   cents |-> calculateJICentsForNote(midiNote, KeyName(root, minor))]
    /\ UNCHANGED outsideTuning

\* applyJITuningForKey: calculateScaleOctaveTuning(getKeyRoot(keyName), isMinorKey(keyName))
CallScaleOctaveTuning ==
    /\ \E root \in 0..11, minor \in BOOLEAN :
         LET keyName == KeyName(root, minor)
         IN  probe' = [fn |-> "calculateScaleOctaveTuning",
                       root |-> root, minor |-> minor,
                       table |-> calculateScaleOctaveTuning(getKeyRoot(keyName),
                                                            isMinorKey(keyName))]
    /\ UNCHANGED outsideTuning

NextTuning == CallJICentsForNote \/ CallScaleOctaveTuning

SpecTuning == InitTuning /\ [][NextTuning]_vars

----------------------------------------------------------------------------
(* C10 *)

\* C10: the cents deviation of a note depends only on its pitch class, the root
\* and the mode (two calls with the same three give the same deviation, and the
\* 12-entry table holds the per-note deviation of each pitch class rounded to a
\* hundredth of a cent), and the deviation of the tonic pitch class is exactly 0
\* in calculateJICentsForNote and in calculateScaleOctaveTuning.
C10_TonicZeroAndDeterministic ==
    /\ [](/\ probe.fn = "calculateJICentsForNote"
               => /\ probe.midiNote % 12 = probe.root => probe.cents = 0
                  /\ probe.cents = calculateJICentsForNote(60 + (probe.midiNote % 12),
                                                           KeyName(probe.root, probe.minor))
          /\ probe.fn = "calculateScaleOctaveTuning"
               => /\ probe.table[probe.root] = 0
                  /\ DOMAIN probe.table = 0..11
                  /\ \A pc \in 0..11 :
                        probe.table[pc] =
                          RoundDiv(calculateJICentsForNote(60 + pc,
                                       KeyName(probe.root, probe.minor)) * 100, CentUnit))
    /\ [][(/\ probe.fn = "calculateJICentsForNote"
           /\ probe'.fn = "calculateJICentsForNote"
           /\ probe'.midiNote % 12 = probe.midiNote % 12
           /\ probe'.root = probe.root
           /\ probe'.minor = probe.minor) => probe'.cents = probe.cents]_vars

\* the tonic of a key other than C has been tuned below the key's root
C10_Witness ==
    /\ probe.fn = "calculateJICentsForNote"
    /\ probe.root = 2
    /\ probe.minor
    /\ probe.midiNote = 50
    /\ probe.cents = 0

----------------------------------------------------------------------------
(* The key detector called directly with buffers of note numbers: scales,  *)
(* a pair of buffers one note apart whose winning keys differ, a buffer    *)
(* whose best score is under the threshold of the low sensitivity, and the *)
(* empty buffer.                                                           *)

MaxDetectCalls == 4

KeyBuffers ==
    << <<>>,
       <<60, 62, 64, 65, 67, 69, 71, 72>>,
       <<67, 69, 71, 72, 74, 76, 78, 79>>,
       <<69, 71, 72, 74, 76, 77, 79, 81>>,
       <<57, 59, 64, 64, 65, 67, 67, 72>>,
       <<57, 59, 64, 64, 65, 67, 69, 72>>,
       <<60, 61, 62, 63, 64, 65, 67, 68, 69, 70, 71>>,
       <<60, 61, 62, 63, 64, 65, 66, 67, 68, 69, 70, 71>> >>

\* the vote of the detector on each of the buffers
KeyBufferVotes == [b \in 1..Len(KeyBuffers) |-> EnsembleVote(KeyBuffers[b])]

\* the two buffers one note apart
NearTiedPair == {5, 6}

Sensitivities == {"low", "medium", "high"}

outsideKey == <<mpeVars, drvVars, engVars>>

OutsideKeyInit ==
    /\ channelPool = MPE_MEMBER_CHANNELS
    /\ activeNotes = <<>>
    /\ channelUsageOrder = <<>>
    /\ pitchBendRangeInitialized = FALSE
    /\ lastCall = [op |-> "init", id |-> Null, ret |-> [kind |-> "null"],
                   fresh |-> 0, others |-> 0, steals |-> 0, peak |-> 0]
    /\ held = {}
    /\ EngineIdle

\* new KeyDetector()
InitKey ==
    /\ currentKey = Null
    /\ probe = [fn |-> "new", calls |-> 0, changes |-> 0, pairOnly |-> TRUE]
    /\ OutsideKeyInit

\* keyDetector.detectKey(noteBuffer, sensitivity)
DetectKey ==
    /\ probe.calls < MaxDetectCalls
    /\ \E b \in 1..Len(KeyBuffers), sensitivity \in Sensitivities :
         LET vote == KeyBufferVotes[b]
             r == DecideKey(vote, sensitivity, currentKey)
         IN  /\ currentKey' = r.currentKey
             /\ probe' = [fn |-> "detectKey", buffer |-> b, sensitivity |-> sensitivity,
                          previous |-> currentKey, ret |-> r.ret,
                          finalKey |-> vote.finalKey, finalScore |-> vote.finalScore,
                          total |-> vote.total,
                          calls |-> probe.calls + 1,
                          changes |-> probe.changes
                                        + (IF r.currentKey # currentKey THEN 1 ELSE 0),
                          pairOnly |-> probe.pairOnly /\ b \in NearTiedPair]
    /\ UNCHANGED outsideKey

\* keyDetector.reset()
ResetKey ==
    /\ probe.fn = "detectKey"
    /\ currentKey' = Null
    /\ probe' = [fn |-> "reset", calls |-> probe.calls, changes |-> 0, pairOnly |-> TRUE]
    /\ UNCHANGED outsideKey

NextKey == DetectKey \/ ResetKey

SpecKey == InitKey /\ [][NextKey]_vars

----------------------------------------------------------------------------
(* C8 *)

\* the score total * 1000 * 100 times the threshold of the sensitivity
ThresholdScore(sensitivity, total) ==
    (CASE sensitivity = "low" -> 50 [] sensitivity = "medium" -> 40 [] sensitivity = "high" -> 30)
      * total * 100

\* C8: detectKey returns an estimate and replaces the current key exactly when the
\* buffer is not empty, the winning key's weighted score is at least the threshold
\* of the sensitivity (low 0.05, medium 0.04, high 0.03) and the winning key is not
\* the current key; otherwise it returns null and leaves the current key as it was.
C8_EstimateOnlyAboveThreshold ==
    probe.fn = "detectKey" =>
        IF /\ probe.total > 0
           /\ probe.finalScore >= ThresholdScore(probe.sensitivity, probe.total)
           /\ probe.finalKey # probe.previous
        THEN /\ probe.ret.kind = "estimate"
             /\ probe.ret.key = probe.finalKey
             /\ currentKey = probe.finalKey
        ELSE /\ probe.ret.kind = "null"
             /\ currentKey = probe.previous

\* a winning key other than the current key has been refused for its score
C8_Witness ==
    /\ probe.fn = "detectKey"
    /\ probe.total > 0
    /\ probe.finalScore < ThresholdScore(probe.sensitivity, probe.total)
    /\ probe.previous # Null
    /\ probe.finalKey # probe.previous
    /\ probe.ret.kind = "null"
    /\ currentKey = probe.previous

----------------------------------------------------------------------------
(* C9 *)

\* C9: fed only the two near-tied buffers, the detector replaces its current key
\* at most twice (it settles on a key, or moves once to the other one), so the
\* current key does not alternate.
C9_NoAlternation ==
    (probe.fn = "detectKey" /\ probe.pairOnly) => probe.changes <= 2

----------------------------------------------------------------------------
(* The orchestrator with an external output: start and stop, notes of two  *)
(* pitches, panic and the two mode switches.                               *)

MaxEngineEvents == 5

EngineNotes == {60, 64}

InitEngine ==
    /\ \E sysexEnabled \in BOOLEAN : main = MainInitial(sysexEnabled, "no_client")
    /\ \E tuningModePreference \in {"none", "MPE"} : mts = MtsInitial(tuningModePreference)
    /\ now = 0
    /\ device = DeviceInitial
    /\ lastOp = Loaded(MaxEngineEvents)
    /\ script = ScriptInitial("main.js")
    /\ audio = AudioInitial
    /\ channelPool = MPE_MEMBER_CHANNELS
    /\ activeNotes = <<>>
    /\ channelUsageOrder = <<>>
    /\ pitchBendRangeInitialized = FALSE
    /\ currentKey = Null
    /\ lastCall = [op |-> "init", id |-> Null, ret |-> [kind |-> "null"],
                   fresh |-> 0, others |-> 0, steals |-> 0, peak |-> 0]
    /\ held = {}
    /\ probe = IdleProbe

\* the start button: enabled while the system is stopped
StartSystem ==
    /\ lastOp.left > 0
    /\ ~main.isRunning
    /\ \E inputId \in BOOLEAN, outputId \in BOOLEAN :
         \E e \in {startSystem(Eng, inputId, outputId)} :
           Handled(e, "startSystem", <<inputId, outputId>>)

\* the stop button: enabled while the system runs
StopSystem ==
    /\ lastOp.left > 0
    /\ main.isRunning
    /\ \E e \in {stopSystem(Eng)} : Handled(e, "stopSystem", <<>>)

\* a note-on message arrives at the selected input
NoteOn ==
    /\ lastOp.left > 0
    /\ main.isRunning
    /\ \E note \in EngineNotes :
         \E e \in {handleNoteOn(Eng, note, NoteVelocity, InputChannel, "medium")} :
           Handled(e, "handleNoteOn", <<note>>)

\* a note-off message arrives at the selected input
NoteOff ==
    /\ lastOp.left > 0
    /\ main.isRunning
    /\ \E note \in EngineNotes :
         \E e \in {handleNoteOff(Eng, note, InputChannel)} :
           Handled(e, "handleNoteOff", <<note>>)

\* the panic button
PanicStop ==
    /\ lastOp.left > 0
    /\ \E e \in {panicStop(Eng)} : Handled(e, "panicStop", <<>>)

\* the "Use MTS" button
SwitchToMTS ==
    /\ lastOp.left > 0
    /\ mts.currentTuningMode # "MTS"
    /\ \E e \in {windowSwitchToMTSMode(Eng)} : Handled(e, "switchToMTSMode", <<>>)

\* the "Use MPE" button
SwitchToMPE ==
    /\ lastOp.left > 0
    /\ mts.currentTuningMode # "MPE"
    /\ \E e \in {windowSwitchToMPEMode(Eng)} : Handled(e, "switchToMPEMode", <<>>)

NextEngine ==
    StartSystem \/ StopSystem \/ NoteOn \/ NoteOff \/ PanicStop \/ SwitchToMTS \/ SwitchToMPE

SpecEngine == InitEngine /\ [][NextEngine]_vars

----------------------------------------------------------------------------
(* Score following: the server hands tuning entries to window.applyJITuning *)
(* while notes are played and time passes.  An entry is stamped with the   *)
(* second it is handed over in, or carries no timestamp (0).               *)

MaxPredictEvents == 4
MaxTicks == 3
StartTime == 1000000

\* the clock is read 59 s after the page has loaded, and every second from then on
TickStep(ticks) == IF ticks = 0 THEN 59000 ELSE 1000

\* the entries the server sends: one names the key of the score
ScoreEntry(timestamp) ==
    [note_id |-> 1, kind |-> "cents", cents |-> 14 * CentUnit, ratio |-> <<1, 1>>,
     timestamp |-> timestamp, source |-> "musicxml_key_signature",
     key |-> KeyName(7, FALSE), is_minor |-> FALSE]

NoteEntry(timestamp) ==
    [note_id |-> 2, kind |-> "ratio", cents |-> 0, ratio |-> <<16, 15>>,
     timestamp |-> timestamp, source |-> "score", key |-> Null, is_minor |-> FALSE]

RatioTables ==
    {<<>>} \cup {<<[pitch |-> 60, entry |-> entry]>> :
                   entry \in {ScoreEntry(0), ScoreEntry(now \div 1000),
                              NoteEntry(0), NoteEntry(now \div 1000)}}

InitPredict ==
    /\ \E sysexEnabled \in BOOLEAN, systemState \in {"no_client", "following"} :
         main = MainInitial(sysexEnabled, systemState)
    /\ mts = MtsInitial("none")
    /\ now = StartTime
    /\ device = DeviceInitial
    /\ lastOp = Loaded(MaxPredictEvents)
    /\ script = ScriptInitial("main.js")
    /\ audio = AudioInitial
    /\ channelPool = MPE_MEMBER_CHANNELS
    /\ activeNotes = <<>>
    /\ channelUsageOrder = <<>>
    /\ pitchBendRangeInitialized = FALSE
    /\ currentKey = Null
    /\ lastCall = [op |-> "init", id |-> Null, ret |-> [kind |-> "null"],
                   fresh |-> 0, others |-> 0, steals |-> 0, peak |-> 0]
    /\ held = {}
    /\ probe = IdleProbe

\* the two-stage client calls window.applyJITuning(ratioTable)
ApplyJITuning ==
    /\ lastOp.left > 0
    /\ \E items \in RatioTables :
         \E e \in {applyJITuning(Eng, items)} : Handled(e, "applyJITuning", items)

\* Date.now() moves on
Tick ==
    /\ lastOp.ticks < MaxTicks
    /\ now' = now + TickStep(lastOp.ticks)
    /\ lastOp' = [lastOp EXCEPT !.ticks = @ + 1]
    /\ UNCHANGED <<mpeVars, drvVars, keyVars, probe, main, mts, device, script, audio>>

NextPredict == StartSystem \/ NoteOn \/ ApplyJITuning \/ Tick

SpecPredict == InitPredict /\ [][NextPredict]_vars

\* the queue of a pitch as the last handler found it
QueueBefore(note) == Lookup(lastOp.before.predictiveJITable, note, <<>>)

\* the age of an entry when the last handler ran, in milliseconds
AgeAt(entry) == lastOp.before.now - entry.timestamp * 1000

\* the entry's timestamp is more than 60 seconds before the last handler ran
Stale(entry) == entry.timestamp # 0 /\ AgeAt(entry) > 60 * 1000

\* the pitch bend the key in force gives a note; a note-on changes neither the
\* key of the score nor, below MIN_NOTES_FOR_DETECTION notes, the detected key
ReactiveBend(note) ==
    LET key == IF main.systemState = "following" /\ main.lastMusicXMLKey # Null
               THEN main.lastMusicXMLKey
               ELSE currentKey
    IN  IF key = Null THEN 0 ELSE centsToPitchBend(calculateJICentsForNote(note, key))

\* the pitch bend an entry asks for
PredictiveBend(entry) ==
    IF entry.kind = "cents" THEN centsToPitchBend(entry.cents)
    ELSE centsToPitchBend(Log2Cents[entry.ratio])

\* C6: on a note-on for pitch p, if the predictive queue of p holds any entry
\* that is not stale, the note is tuned from a predictive entry and not from
\* the key; it is tuned from the key only when the queue holds no such entry.
C6_PredictivePreferredWhileAnyFresh ==
    lastOp.op = "handleNoteOn" =>
      LET queue == QueueBefore(lastOp.arg[1])
      IN  IF \E i \in 1..Len(queue) : ~Stale(queue[i])
          THEN lastOp.ret.tuned.source = "predictive"
          ELSE lastOp.ret.tuned.source = "reactive"

\* C7: the entry a note-on consumes is discarded, and the note tuned from the
\* key, when its timestamp is more than 60 seconds before the note-on; when it
\* is not (59 seconds, or 60 to the millisecond) the entry's tuning is applied.
\* Either way the entry leaves its queue.
C7_StaleDiscardedYoungerApplied ==
    (lastOp.op = "handleNoteOn" /\ Len(QueueBefore(lastOp.arg[1])) > 0) =>
      LET note == lastOp.arg[1]
          entry == Head(QueueBefore(note))
          tuned == lastOp.ret.tuned
      IN  /\ Lookup(main.predictiveJITable, note, <<>>) = Tail(QueueBefore(note))
          /\ (entry.timestamp # 0 /\ AgeAt(entry) > 60 * 1000) =>
               (tuned.source = "reactive" /\ tuned.pitchBend = ReactiveBend(note))
          /\ (entry.timestamp # 0 /\ AgeAt(entry) <= 60 * 1000) =>
               (tuned.source = "predictive" /\ tuned.pitchBend = PredictiveBend(entry))

\* an entry 61 seconds old is consumed: the note is tuned in the key of the score
C7_Witness ==
    /\ lastOp.op = "handleNoteOn"
    /\ Len(QueueBefore(lastOp.arg[1])) > 0
    /\ Head(QueueBefore(lastOp.arg[1])).timestamp # 0
    /\ AgeAt(Head(QueueBefore(lastOp.arg[1]))) = 61 * 1000
    /\ lastOp.ret.tuned.source = "reactive"
    /\ lastOp.ret.tuned.pitchBend # 0

\* an entry 59 seconds old is consumed and applied
C7_AppliedAt59 ==
    /\ lastOp.op = "handleNoteOn"
    /\ Len(QueueBefore(lastOp.arg[1])) > 0
    /\ AgeAt(Head(QueueBefore(lastOp.arg[1]))) = 59 * 1000
    /\ lastOp.ret.tuned.source = "predictive"

----------------------------------------------------------------------------
(* What is left on the device and in the program after a stop, a panic and *)
(* a switch of the tuning backend                                          *)

\* the notes of a pitch the device is sounding, as the channels they sound on
SoundingChannels(dev, note) == {ch \in 0..15 : <<ch, note>> \in dev.sounding}

\* the device tunes every note as equal temperament does
DeviceAtEqualTemperament(dev) ==
    /\ \A ch \in 0..15 : dev.bend[ch] = 0
    /\ \A pc \in 0..11 : dev.scale[pc] = ScaleCenter
    /\ \A note \in DOMAIN dev.noteTuning : dev.noteTuning[note] = <<note, 0, 0>>

\* C3: when stopSystem returns, every note-on sent to the output has been
\* followed by a note-off or an all-notes-off on its channel, the per-pitch
\* note stacks are empty, all 15 member channels are free, and the device is
\* back at equal temperament.
C3_StopFlushesAndResets ==
    lastOp.op = "stopSystem" =>
      /\ device.sounding = {}
      /\ main.activeNoteStacks = <<>>
      /\ channelPool = MPE_MEMBER_CHANNELS
      /\ activeNotes = <<>>
      /\ DeviceAtEqualTemperament(device)

\* C4: a panic with an output selected sends all-notes-off on each of the 16
\* channels and resets every backend: no member channel is owned by a note
\* afterwards, every channel's bend is centered and no active-note record
\* remains.
C4_PanicResetsEveryBackend ==
    (lastOp.op = "panicStop" /\ main.selectedOutput) =>
      /\ lastOp.sent = AllNotesOffMessages
      /\ activeNotes = <<>>
      /\ channelPool = MPE_MEMBER_CHANNELS
      /\ \A ch \in 0..15 : device.bend[ch] = 0
      /\ main.activeNoteStacks = <<>>

\* C5: a note that is sounding on one channel when the backend is switched
\* (MPE to MTS or MTS to MPE), and that the program holds one record of, is
\* ended by the note-off that follows the switch: the device sounds it on no
\* channel any more.
C5_NoteOffAfterSwitchEndsNote ==
    [][(/\ lastOp.op \in {"switchToMTSMode", "switchToMPEMode"}
        /\ lastOp'.op = "handleNoteOff"
        /\ Len(Lookup(main.activeNoteStacks, lastOp'.arg[1], <<>>)) = 1
        /\ Cardinality(SoundingChannels(device, lastOp'.arg[1])) = 1)
       => SoundingChannels(device', lastOp'.arg[1]) = {}]_vars

----------------------------------------------------------------------------
(* A cluster of keys: one key after the other is pressed, from LowestKey   *)
(* up and within one millisecond, on the modular page (main.js) or on the  *)
(* single-file page (script5.js).  A few other events come between: a key  *)
(* is released (the lowest one down) or the panic button is pressed.       *)

MaxPoolKeys == 17
MaxPoolOthers == 1
LowestKey == 48

InitPool ==
    /\ \E page \in {"main.js", "script5.js"}, sysexEnabled \in BOOLEAN :
         /\ page = "script5.js" => ~sysexEnabled
         /\ script = ScriptInitial(page)
         /\ audio = AudioInitial
         /\ main = MainInitial(sysexEnabled, "no_client")
    /\ mts = MtsInitial("none")
    /\ now = StartTime
    /\ device = DeviceInitial
    /\ lastOp = Loaded(MaxPoolKeys + MaxPoolOthers + 1)
    /\ channelPool = MPE_MEMBER_CHANNELS
    /\ activeNotes = <<>>
    /\ channelUsageOrder = <<>>
    /\ pitchBendRangeInitialized = FALSE
    /\ currentKey = Null
    /\ lastCall = [op |-> "init", id |-> Null, ret |-> [kind |-> "null"],
                   fresh |-> 0, others |-> 0, steals |-> 0, peak |-> 0]
    /\ held = {}
    /\ probe = [fn |-> "keys", keys |-> 0, others |-> 0]

\* the lowest of a set of keys, if any
Lowest(keys) == {k \in keys : \A j \in keys : k <= j}

\* main.js: the start button, with an input and an output device selected
StartWithDevices ==
    /\ ~main.isRunning
    /\ \E e \in {startSystem(Eng, TRUE, TRUE)} : Handled(e, "startSystem", <<TRUE, TRUE>>)

\* main.js: the next key of the cluster goes down
PressKey ==
    /\ probe.keys < MaxPoolKeys
    /\ main.isRunning
    /\ \E e \in {handleNoteOn(Eng, LowestKey + probe.keys, NoteVelocity, InputChannel,
                              "medium")} :
         Ran(e, "handleNoteOn", <<LowestKey + probe.keys>>)
    /\ probe' = [probe EXCEPT !.keys = @ + 1]
    /\ UNCHANGED drvVars

\* main.js: a key goes up
ReleaseKey ==
    /\ probe.others < MaxPoolOthers
    /\ main.isRunning
    /\ \E note \in Lowest(DOMAIN main.activeNoteStacks) :
         \E e \in {handleNoteOff(Eng, note, InputChannel)} : Ran(e, "handleNoteOff", <<note>>)
    /\ probe' = [probe EXCEPT !.others = @ + 1]
    /\ UNCHANGED drvVars

\* main.js: the panic button
PanicKey ==
    /\ probe.others < MaxPoolOthers
    /\ main.isRunning
    /\ \E e \in {panicStop(Eng)} : Ran(e, "panicStop", <<>>)
    /\ probe' = [probe EXCEPT !.others = @ + 1]
    /\ UNCHANGED drvVars

\* script5.js: an output device is selected
ScriptSelectOutput ==
    /\ ~script.midiOutput
    /\ \E x \in {midiOutSelectChange(Scr, TRUE)} : ScriptRan(x, "midiOutSelectChange", <<TRUE>>)
    /\ UNCHANGED probe

\* script5.js: the next key of the cluster goes down
ScriptPressKey ==
    /\ probe.keys < MaxPoolKeys
    /\ \E x \in {onNoteOn(Scr, LowestKey + probe.keys, NoteVelocity)} :
         ScriptRan(x, "onNoteOn", <<LowestKey + probe.keys>>)
    /\ probe' = [probe EXCEPT !.keys = @ + 1]

\* script5.js: a key goes up
ScriptReleaseKey ==
    /\ probe.others < MaxPoolOthers
    /\ \E note \in Lowest(script.keysDown) :
         \E x \in {onNoteOff(Scr, note)} : ScriptRan(x, "onNoteOff", <<note>>)
    /\ probe' = [probe EXCEPT !.others = @ + 1]

\* script5.js: the panic button
ScriptPanic ==
    /\ probe.others < MaxPoolOthers
    /\ \E x \in {resetAllMidiState(Scr)} : ScriptRan(x, "resetAllMidiState", <<>>)
    /\ probe' = [probe EXCEPT !.others = @ + 1]

NextPool ==
    \/ StartWithDevices \/ PressKey \/ ReleaseKey \/ PanicKey
    \/ ScriptSelectOutput \/ ScriptPressKey \/ ScriptReleaseKey \/ ScriptPanic

SpecPool == InitPool /\ [][NextPool]_vars

\* main.js has taken a note-on in MPE mode with every member channel owned
MainExhausted ==
    /\ lastOp.op = "handleNoteOn"
    /\ main.selectedOutput
    /\ ~mts.mtsSupported
    /\ lastOp.before.channelPool = <<>>
    /\ Cardinality(DOMAIN lastOp.before.activeNotes) = NumMemberChannels

\* script5.js has taken a note-on with every MPE channel in use
ScriptExhausted ==
    /\ lastOp.op = "onNoteOn"
    /\ script.midiOutput
    /\ \A i \in 1..15 : lastOp.before.MPE_CHANNELS[i].inUse

C2_ScriptDropsSixteenth ==
    /\ ScriptExhausted
    /\ lastOp.arg = <<LowestKey + 15>>
    /\ lastOp.sent = <<>>

----------------------------------------------------------------------------
(* The key detector on every buffer of up to MaxBufferLen notes of one     *)
(* octave: notes are appended one at a time, in ascending order since the  *)
(* detector only counts the pitch classes, and detectKey is called on the  *)
(* buffer.  The scores are linear in the shares of the pitch classes, so   *)
(* the largest score any buffer can have is the one of a buffer of a       *)
(* single pitch class.                                                     *)

MaxBufferLen == 4

BufferNotes == 60..71

InitBuffer ==
    /\ currentKey = Null
    /\ probe = [fn |-> "buffer", notes |-> <<>>]
    /\ OutsideKeyInit

\* noteBuffer.push({ note, time })
PushNote ==
    /\ probe.fn = "buffer"
    /\ Len(probe.notes) < MaxBufferLen
    /\ \E note \in BufferNotes :
         /\ Len(probe.notes) > 0 => probe.notes[Len(probe.notes)] <= note
         /\ probe' = [fn |-> "buffer", notes |-> Append(probe.notes, note)]
    /\ UNCHANGED <<currentKey, outsideKey>>

\* keyDetector.detectKey(noteBuffer, sensitivity)
DetectBuffer ==
    /\ probe.fn = "buffer"
    /\ \E sensitivity \in Sensitivities :
       \E r \in {detectKeyEnsemble(probe.notes, sensitivity, currentKey)} :
         /\ currentKey' = r.currentKey
         /\ probe' = [fn |-> "detectKey", notes |-> probe.notes,
                      sensitivity |-> sensitivity, ret |-> r.ret]
    /\ UNCHANGED outsideKey

NextBuffer == PushNote \/ DetectBuffer

SpecBuffer == InitBuffer /\ [][NextBuffer]_vars

\* C11: whenever detectKey returns an estimate, its confidence is a whole number
\* from 0 to 100 and its agreement count is one of 0, 1, 2, 3.
C11_ConfidenceAndAgreementInRange ==
    (probe.fn = "detectKey" /\ probe.ret.kind = "estimate") =>
        /\ probe.ret.confidence \in 0..100
        /\ probe.ret.agreement \in 0..3

\* an estimate all three profiles agree on, from a buffer of a single pitch class
\* or of several
C11_Witness ==
    /\ probe.fn = "detectKey"
    /\ probe.ret.kind = "estimate"
    /\ probe.ret.agreement = 3
    /\ probe.ret.confidence > 50

\* the estimate of a buffer of one pitch class: the largest confidence there is
C11_SinglePitchClass ==
    /\ probe.fn = "detectKey"
    /\ probe.ret.kind = "estimate"
    /\ Len(probe.notes) > 0
    /\ \A i \in 1..Len(probe.notes) : probe.notes[i] = probe.notes[1]

----------------------------------------------------------------------------
(* The two pitch-bend conversions of tuning-core.js called one after the   *)
(* other on every value a pitch-bend message can carry.                    *)

\* MIDI pitch bend range: -8192 to +8191
BendValues == -8192..8191

InitBend ==
    /\ currentKey = Null
    /\ \E x \in BendValues : probe = [fn |-> "bend", x |-> x]
    /\ OutsideKeyInit

\* pitchBendToCents(x)
BendToCents ==
    /\ probe.fn = "bend"
    /\ probe' = [fn |-> "pitchBendToCents", x |-> probe.x, cents |-> pitchBendToCents(probe.x)]
    /\ UNCHANGED <<currentKey, outsideKey>>

\* centsToPitchBend(cents) of the cents just computed
CentsToBend ==
    /\ probe.fn = "pitchBendToCents"
    /\ probe' = [fn |-> "centsToPitchBend", x |-> probe.x, cents |-> probe.cents,
                 back |-> centsToPitchBend(probe.cents)]
    /\ UNCHANGED <<currentKey, outsideKey>>

NextBend == BendToCents \/ CentsToBend

SpecBend == InitBend /\ [][NextBend]_vars

\* C12: for every pitch-bend value x from -8192 to 8191,
\* centsToPitchBend(pitchBendToCents(x)) differs from x by at most one step.
C12_BendRoundTrip ==
    probe.fn = "centsToPitchBend" =>
        /\ probe.back - probe.x <= 1
        /\ probe.x - probe.back <= 1

\* the round trip of the lowest value, at the edge of the clamp
C12_Witness ==
    /\ probe.fn = "centsToPitchBend"
    /\ probe.x = -8192
    /\ probe.cents = (0 - 200) * CentUnit
    /\ probe.back = -8192

\* the round trip gives back every value exactly
C12_RoundTripExact ==
    probe.fn = "centsToPitchBend" => probe.back = probe.x

----------------------------------------------------------------------------
(* Sessions: the page is loaded again and again.  A load starts main.js    *)
(* and tuning-mts.js afresh, with SysEx granted or not; localStorage and   *)
(* the device outlive it.  The browser starts without a stored preference. *)

MaxSessionEvents == 6
MaxSessions == 3

InitSession ==
    /\ \E sysexEnabled \in BOOLEAN : main = MainInitial(sysexEnabled, "no_client")
    /\ mts = MtsInitial("none")
    /\ now = 0
    /\ device = DeviceInitial
    /\ lastOp = Loaded(MaxSessionEvents)
    /\ script = ScriptInitial("main.js")
    /\ audio = AudioInitial
    /\ channelPool = MPE_MEMBER_CHANNELS
    /\ activeNotes = <<>>
    /\ channelUsageOrder = <<>>
    /\ pitchBendRangeInitialized = FALSE
    /\ currentKey = Null
    /\ lastCall = [op |-> "init", id |-> Null, ret |-> [kind |-> "null"],
                   fresh |-> 0, others |-> 0, steals |-> 0, peak |-> 0]
    /\ held = {}
    /\ probe = [fn |-> "session", session |-> 1, stored |-> "none"]

\* the page is loaded again: initMIDI asks for MIDI access with SysEx anew
Reload ==
    /\ lastOp.left > 0
    /\ probe.session < MaxSessions
    /\ \E sysexEnabled \in BOOLEAN : main' = MainInitial(sysexEnabled, "no_client")
    /\ mts' = MtsInitial(mts.tuningModePreference)
    /\ SetMpe(MpeInitial)
    /\ pitchBendRangeInitialized' = FALSE
    /\ currentKey' = Null
    /\ lastOp' = Loaded(lastOp.left - 1)
    /\ probe' = [fn |-> "session", session |-> probe.session + 1,
                 stored |-> mts.tuningModePreference]
    /\ UNCHANGED <<now, device, script, audio, drvVars>>

NextSession == StartSystem \/ StopSystem \/ SwitchToMTS \/ SwitchToMPE \/ Reload

SpecSession == InitSession /\ [][NextSession]_vars

\* this step is a startSystem in which detectMTSSupport does its detection
DetectionRuns ==
    /\ lastOp'.op = "startSystem"
    /\ lastOp'.arg = <<TRUE, TRUE>>
    /\ ~mts.mtsDetectionAttempted

\* the step leaves the MPE backend selected and has sent no system exclusive message
SelectsMPEWithoutProbe ==
    /\ mts'.currentTuningMode = "MPE"
    /\ ~mts'.mtsSupported
    /\ \A i \in 1..Len(lastOp'.sent) : ~IsSysEx(lastOp'.sent[i])

\* C13: when detection runs without SysEx permission, or with the preference 'MPE'
\* stored, it selects MPE and sends no SysEx message; the button "Use MPE" stores
\* the preference, and it stays stored through every event, page loads included,
\* except a switch back to MTS.
C13_DetectionShortCircuits ==
    [][/\ (DetectionRuns /\ ~main.sysexEnabled) => SelectsMPEWithoutProbe
       /\ (DetectionRuns /\ mts.tuningModePreference = "MPE") => SelectsMPEWithoutProbe
       /\ lastOp'.op = "switchToMPEMode" => mts'.tuningModePreference = "MPE"
       /\ (mts.tuningModePreference = "MPE" /\ lastOp'.op # "switchToMTSMode")
             => mts'.tuningModePreference = "MPE"]_vars

\* a later session, with SysEx granted, has found the preference stored by an
\* earlier one and has started on MPE, sending the pitch bend ranges only
C13_Witness ==
    /\ probe.fn = "session"
    /\ probe.session > 1
    /\ probe.stored = "MPE"
    /\ lastOp.op = "startSystem"
    /\ lastOp.arg = <<TRUE, TRUE>>
    /\ main.sysexEnabled
    /\ mts.mtsDetectionAttempted
    /\ mts.currentTuningMode = "MPE"
    /\ Len(lastOp.sent) > 0
    /\ \A i \in 1..Len(lastOp.sent) : ~IsSysEx(lastOp.sent[i])

\* a session without SysEx permission has started on MPE
C13_NoPermission ==
    /\ lastOp.op = "startSystem"
    /\ lastOp.arg = <<TRUE, TRUE>>
    /\ ~main.sysexEnabled
    /\ mts.tuningModePreference = "none"
    /\ mts.currentTuningMode = "MPE"
    /\ Len(lastOp.sent) > 0

\* after a switch back to MTS a later session probes again
C13_ProbesAgainAfterSwitchBack ==
    /\ probe.fn = "session"
    /\ probe.session > 2
    /\ probe.stored = "none"
    /\ lastOp.op = "startSystem"
    /\ mts.currentTuningMode = "MTS"
    /\ \E i \in 1..Len(lastOp.sent) : IsSysEx(lastOp.sent[i])

\* C14: with SysEx granted and no preference stored, a start that leaves the MTS
\* backend selected has sent the device an identity request or a tuning-dump
\* request (the device can only have answered a request that was sent).
C14_MTSOnlyAfterAnswer ==
    (/\ lastOp.op = "startSystem"
     /\ lastOp.arg = <<TRUE, TRUE>>
     /\ main.sysexEnabled
     /\ mts.tuningModePreference = "none"
     /\ mts.currentTuningMode = "MTS")
        => \E i \in 1..Len(lastOp.sent) : lastOp.sent[i].kind = "inquiry"

----------------------------------------------------------------------------
(* An output that comes to reject system exclusive messages while a score  *)
(* is followed: send() throws on them and takes every other message.       *)

MaxFaultEvents == 5

InitFault ==
    /\ \E sysexEnabled \in BOOLEAN, systemState \in {"no_client", "following"} :
         main = MainInitial(sysexEnabled, systemState)
    /\ mts = MtsInitial("none")
    /\ now = StartTime
    /\ device = DeviceInitial
    /\ lastOp = Loaded(MaxFaultEvents)
    /\ script = ScriptInitial("main.js")
    /\ audio = AudioInitial
    /\ channelPool = MPE_MEMBER_CHANNELS
    /\ activeNotes = <<>>
    /\ channelUsageOrder = <<>>
    /\ pitchBendRangeInitialized = FALSE
    /\ currentKey = Null
    /\ lastCall = [op |-> "init", id |-> Null, ret |-> [kind |-> "null"],
                   fresh |-> 0, others |-> 0, steals |-> 0, peak |-> 0]
    /\ held = {}
    /\ probe = IdleProbe

\* the output starts or stops rejecting system exclusive messages
OutputFault ==
    /\ lastOp.left > 0
    /\ device' = [device EXCEPT !.rejectsSysEx = ~@]
    /\ lastOp' = [op |-> "fault", left |-> lastOp.left - 1, ticks |-> lastOp.ticks]
    /\ UNCHANGED <<mpeVars, drvVars, keyVars, probe, main, mts, now, script, audio>>

NextFault == StartSystem \/ NoteOn \/ NoteOff \/ ApplyJITuning \/ OutputFault

SpecFault == InitFault /\ [][NextFault]_vars

\* the last handler was a note-on with a deviation, forwarded with MTS in use
TunedNoteOnUnderMTS ==
    /\ lastOp.op = "handleNoteOn"
    /\ main.selectedOutput
    /\ lastOp.before.mtsSupported
    /\ lastOp.ret.tuned.pitchBend # 0

----------------------------------------------------------------------------
(* The two-stage client (two-stage-client.js) beside main.js: connected to *)
(* its server and following a score at first, it hands position updates to *)
(* window.applyJITuning until its socket disconnects; reset() is called    *)
(* from the page.  probe.connected is the client's connected flag,         *)
(* main.systemState its systemState.                                       *)

MaxClientEvents == 5

InitClient ==
    /\ \E sysexEnabled \in BOOLEAN : main = MainInitial(sysexEnabled, "following")
    /\ mts = MtsInitial("none")
    /\ now = StartTime
    /\ device = DeviceInitial
    /\ lastOp = Loaded(MaxClientEvents)
    /\ script = ScriptInitial("main.js")
    /\ audio = AudioInitial
    /\ channelPool = MPE_MEMBER_CHANNELS
    /\ activeNotes = <<>>
    /\ channelUsageOrder = <<>>
    /\ pitchBendRangeInitialized = FALSE
    /\ currentKey = Null
    /\ lastCall = [op |-> "init", id |-> Null, ret |-> [kind |-> "null"],
                   fresh |-> 0, others |-> 0, steals |-> 0, peak |-> 0]
    /\ held = {}
    /\ probe = [fn |-> "client", connected |-> TRUE]

\* socket.on('position_update'): data.ji_ratios goes to window.applyJITuning
PositionUpdate ==
    /\ probe.connected
    /\ ApplyJITuning

\* socket.on('disconnect')
Disconnect ==
    /\ lastOp.left > 0
    /\ probe.connected
    /\ probe' = [probe EXCEPT !.connected = FALSE]
    /\ main' = [main EXCEPT !.systemState = "idle"]
    /\ lastOp' = [op |-> "disconnect", left |-> lastOp.left - 1, ticks |-> lastOp.ticks]
    /\ UNCHANGED <<mpeVars, drvVars, keyVars, mts, now, device, script, audio>>

\* TwoStageClient.reset(): the state goes to idle while connected, and
\* clearAllUI calls window.applyJITuning({}) either way
ClientReset ==
    /\ lastOp.left > 0
    /\ \E e \in {applyJITuning([Eng EXCEPT !.main.systemState =
                                            IF probe.connected THEN "idle" ELSE @],
                                <<>>)} :
         Handled(e, "reset", <<>>)

NextClient == StartSystem \/ NoteOn \/ PositionUpdate \/ Disconnect \/ ClientReset

SpecClient == InitClient /\ [][NextClient]_vars

\* nothing of the score follower is left in force
Withdrawn ==
    /\ main.predictiveJITable = <<>>
    /\ ~main.predictiveTuningActive
    /\ main.systemState \notin {"following", "score_following_active"}

\* C16: after the client's socket has disconnected, and after its reset(), no
\* predictive entry is queued and the key of the score is not in force: a
\* note-on that comes next is tuned from the detected key.
C16_WithdrawnOnDisconnectOrReset ==
    [][/\ lastOp'.op \in {"disconnect", "reset"} => Withdrawn'
       /\ (lastOp.op \in {"disconnect", "reset"} /\ lastOp'.op = "handleNoteOn") =>
             /\ lastOp'.ret.tuned.source = "reactive"
             /\ lastOp'.ret.tuned.pitchBend =
                   IF currentKey' = Null THEN 0
                   ELSE calculateJIPitchBend(lastOp'.arg[1], currentKey')]_vars

\* reset() has withdrawn a queued entry and the key of the score
C16_ResetWithdraws ==
    /\ lastOp.op = "reset"
    /\ SomeQueued(lastOp.before.predictiveJITable)
    /\ main.lastMusicXMLKey # Null
    /\ Withdrawn

----------------------------------------------------------------------------
(* Keys and the sustain pedal, with the internal sampler or an external    *)
(* device as the output.  probe.down is the set of keys physically down.   *)

MaxSustainEvents == 6

SustainNotes == {60, 64}

\* data2 of controller 64: pedal up, pedal down
PedalValues == {0, 127}

InitSustain ==
    /\ \E outputMode \in {"internal", "external"} :
         main = [MainInitial(FALSE, "no_client") EXCEPT !.outputMode = outputMode]
    /\ mts = MtsInitial("none")
    /\ now = StartTime
    /\ device = DeviceInitial
    /\ lastOp = Loaded(MaxSustainEvents)
    /\ script = ScriptInitial("main.js")
    /\ audio = AudioInitial
    /\ channelPool = MPE_MEMBER_CHANNELS
    /\ activeNotes = <<>>
    /\ channelUsageOrder = <<>>
    /\ pitchBendRangeInitialized = FALSE
    /\ currentKey = Null
    /\ lastCall = [op |-> "init", id |-> Null, ret |-> [kind |-> "null"],
                   fresh |-> 0, others |-> 0, steals |-> 0, peak |-> 0]
    /\ held = {}
    /\ probe = [fn |-> "keys", down |-> {}]

\* the start button, an input and an output selected
SustainStart ==
    /\ lastOp.left > 0
    /\ ~main.isRunning
    /\ \E e \in {startSystem(Eng, TRUE, TRUE)} : Handled(e, "startSystem", <<TRUE, TRUE>>)

\* a key goes down: its note-on arrives
KeyDown ==
    /\ lastOp.left > 0
    /\ main.isRunning
    /\ \E note \in SustainNotes \ probe.down :
         \E e \in {handleNoteOn(Eng, note, NoteVelocity, InputChannel, "medium")} :
           /\ Ran(e, "handleNoteOn", <<note>>)
           /\ probe' = [probe EXCEPT !.down = @ \cup {note}]
    /\ UNCHANGED drvVars

\* a key goes up: its note-off arrives
KeyUp ==
    /\ lastOp.left > 0
    /\ main.isRunning
    /\ \E note \in probe.down :
         \E e \in {handleNoteOff(Eng, note, InputChannel)} :
           /\ Ran(e, "handleNoteOff", <<note>>)
           /\ probe' = [probe EXCEPT !.down = @ \ {note}]
    /\ UNCHANGED drvVars

\* the sustain pedal moves: controller 64 arrives
Pedal ==
    /\ lastOp.left > 0
    /\ main.isRunning
    /\ \E value \in PedalValues :
         \E e \in {handleControlChange(Eng, 64, value, InputChannel)} :
           Handled(e, "handleControlChange", <<64, value>>)

NextSustain == SustainStart \/ KeyDown \/ KeyUp \/ Pedal

SpecSustain == InitSustain /\ [][NextSustain]_vars

\* the number of voices of the sampler that sound at a pitch
Voices(note) == Lookup(audio.voices, note, 0)

\* C17: with internal output, after a note-off that arrives while the pedal is
\* down the note still sounds, and after the pedal has gone up every key that is
\* down sounds (a key pressed again under the pedal too) and no other note does;
\* with external output a note-off is sent on to the device by its handler.
C17_SustainDefersAndFlushesUnheld ==
    /\ (main.outputMode = "internal" /\ lastOp.op = "handleNoteOff"
           /\ audio.sustainPedalDown)
          => Voices(lastOp.arg[1]) > 0
    /\ (main.outputMode = "internal" /\ lastOp.op = "handleControlChange"
           /\ lastOp.arg = <<64, 0>>)
          => \A note \in SustainNotes : (note \in probe.down) = (Voices(note) > 0)
    /\ (main.outputMode = "external" /\ lastOp.op = "handleNoteOff")
          => \E i \in 1..Len(lastOp.sent) :
               /\ lastOp.sent[i].kind = "short"
               /\ lastOp.sent[i].status \div 16 = 8
               /\ lastOp.sent[i].data1 = lastOp.arg[1]

\* the pedal has gone up and stopped a note whose key was up, no key being down
C17_PedalUpStopsUnheld ==
    /\ main.outputMode = "internal"
    /\ lastOp.op = "handleControlChange"
    /\ lastOp.arg = <<64, 0>>
    /\ probe.down = {}
    /\ 60 \in DOMAIN audio.voices
    /\ Voices(60) = 0

----------------------------------------------------------------------------
(* The allocator with the time of every noteId's most recent allocation    *)
(* recorded beside it: probe.stamp[id] is the number of the allocateChannel *)
(* call that last named id, probe.clock the number of calls so far.        *)

outsideLRU == <<keyVars, engVars>>

InitLRU ==
    /\ channelPool = MPE_MEMBER_CHANNELS
    /\ activeNotes = <<>>
    /\ channelUsageOrder = <<>>
    /\ pitchBendRangeInitialized = FALSE
    /\ lastCall = [op |-> "init", id |-> Null, ret |-> [kind |-> "null"],
                   fresh |-> 0, others |-> 0, steals |-> 0, peak |-> 0]
    /\ held = {}
    /\ currentKey = Null
    /\ probe = [fn |-> "lru", clock |-> 0, stamp |-> <<>>]
    /\ EngineIdle

Stamped(id) == [probe EXCEPT !.clock = @ + 1, !.stamp = MapSet(@, id, probe.clock + 1)]

\* allocateChannel(`${nextNoteId++}_${note}`)
LruAllocFresh ==
    /\ lastCall.fresh < MaxAllocIds
    /\ LET id == AllocId(lastCall.fresh + 1)
           r  == allocateChannel(id, MpeState)
       IN  /\ SetMpe(r.st)
           /\ lastCall' = [lastCall EXCEPT !.op = "allocate", !.id = id, !.ret = r.ret,
                                           !.fresh = @ + 1,
                                           !.steals = @ + Stole(r.ret),
                                           !.peak = Max(@, Cardinality(held \cup {id}))]
           /\ held' = held \cup {id}
           /\ probe' = Stamped(id)
    /\ UNCHANGED <<pitchBendRangeInitialized, outsideLRU>>

\* allocateChannel of an id that was allocated before
LruAllocAgain ==
    /\ lastCall.others < MaxOtherCalls
    /\ \E id \in Candidates :
         LET r == allocateChannel(id, MpeState)
         IN  /\ SetMpe(r.st)
             /\ lastCall' = [lastCall EXCEPT !.op = "allocate", !.id = id, !.ret = r.ret,
                                             !.others = @ + 1,
                                             !.steals = @ + Stole(r.ret)]
             /\ probe' = Stamped(id)
    /\ UNCHANGED <<pitchBendRangeInitialized, held, outsideLRU>>

\* releaseChannel(noteId)
LruRelease ==
    /\ lastCall.others < MaxOtherCalls
    /\ \E id \in Candidates :
         /\ SetMpe(releaseChannel(id, MpeState))
         /\ lastCall' = [lastCall EXCEPT !.op = "release", !.id = id,
                                         !.ret = [kind |-> "null"], !.others = @ + 1]
         /\ held' = held \ {id}
    /\ UNCHANGED <<pitchBendRangeInitialized, probe, outsideLRU>>

NextLRU == LruAllocFresh \/ LruAllocAgain \/ LruRelease

SpecLRU == InitLRU /\ [][NextLRU]_vars

\* The step is a call of allocateChannel that finds no member channel free.
AllocationWithNoneFree ==
    /\ lastCall' # lastCall
    /\ lastCall'.op = "allocate"
    /\ lastCall'.id \notin DOMAIN activeNotes
    /\ Len(channelPool) = 0

\* id is an active note none of whose fellows was allocated longer ago
LeastRecentlyUsed(id) ==
    /\ id \in DOMAIN activeNotes
    /\ \A other \in DOMAIN activeNotes : probe.stamp[id] <= probe.stamp[other]

\* C18: an allocation that finds no member channel free steals the channel of the
\* active noteId whose most recent allocation is the oldest, and gives it to the
\* new note; the note that owned it owns no channel afterwards.
C18_StealsLeastRecentlyUsed ==
    [][AllocationWithNoneFree =>
          /\ lastCall'.ret.kind = "steal"
          /\ LeastRecentlyUsed(lastCall'.ret.reusedNoteId)
          /\ lastCall'.ret.channel = activeNotes[lastCall'.ret.reusedNoteId]
          /\ activeNotes'[lastCall'.id] = lastCall'.ret.channel
          /\ lastCall'.ret.reusedNoteId \notin DOMAIN activeNotes']_vars

\* a steal has taken the channel of a note other than the first one allocated,
\* the first one having been allocated again in between and still sounding
C18_Witness ==
    /\ lastCall.op = "allocate"
    /\ lastCall.ret.kind = "steal"
    /\ lastCall.ret.reusedNoteId = AllocId(2)
    /\ AllocId(1) \in DOMAIN activeNotes
    /\ lastCall.ret.reusedNoteId \notin DOMAIN activeNotes
    /\ Len(channelPool) = 0

----------------------------------------------------------------------------
(* Score following with entries that lack a field: one has no note_id, one *)
(* has a note_id and neither a numeric cents nor a numeric ratio.  No entry *)
(* carries a timestamp, so none grows stale.                               *)

MaxMalformedEvents == 5

NoIdEntry ==
    [note_id |-> NoNoteId, kind |-> "cents", cents |-> 14 * CentUnit, ratio |-> <<1, 1>>,
     timestamp |-> 0, source |-> "score", key |-> Null, is_minor |-> FALSE]

NoTuningEntry ==
    [note_id |-> 3, kind |-> "none", cents |-> 0, ratio |-> <<1, 1>>,
     timestamp |-> 0, source |-> "score", key |-> Null, is_minor |-> FALSE]

EntryTables ==
    {<<[pitch |-> 60, entry |-> entry]>> :
       entry \in {ScoreEntry(0), NoteEntry(0), NoIdEntry, NoTuningEntry}}

InitMalformed ==
    /\ main = MainInitial(TRUE, "following")
    /\ mts = MtsInitial("none")
    /\ now = StartTime
    /\ device = DeviceInitial
    /\ lastOp = Loaded(MaxMalformedEvents)
    /\ script = ScriptInitial("main.js")
    /\ audio = AudioInitial
    /\ channelPool = MPE_MEMBER_CHANNELS
    /\ activeNotes = <<>>
    /\ channelUsageOrder = <<>>
    /\ pitchBendRangeInitialized = FALSE
    /\ currentKey = Null
    /\ lastCall = [op |-> "init", id |-> Null, ret |-> [kind |-> "null"],
                   fresh |-> 0, others |-> 0, steals |-> 0, peak |-> 0]
    /\ held = {}
    /\ probe = IdleProbe

\* the two-stage client calls window.applyJITuning(ratioTable)
DeliverEntries ==
    /\ lastOp.left > 0
    /\ \E items \in EntryTables :
         \E e \in {applyJITuning(Eng, items)} : Handled(e, "applyJITuning", items)

NextMalformed == StartSystem \/ NoteOn \/ DeliverEntries

SpecMalformed == InitMalformed /\ [][NextMalformed]_vars

\* the entry has a note_id and a numeric cents or a numeric ratio
WellFormed(entry) == entry.note_id # NoNoteId /\ entry.kind \in {"cents", "ratio"}

C19_NoNoteIdIgnored ==
    /\ \A pitch \in DOMAIN main.predictiveJITable :
         \A i \in 1..Len(main.predictiveJITable[pitch]) :
           main.predictiveJITable[pitch][i].note_id # NoNoteId
    /\ (lastOp.op = "applyJITuning" /\ lastOp.arg[1].entry = NoIdEntry)
          => main.predictiveJITable = lastOp.before.predictiveJITable

\* an entry without a note_id has been delivered while the key of the score was known
C19_NoNoteIdDelivered ==
    /\ lastOp.op = "applyJITuning"
    /\ lastOp.arg[1].entry = NoIdEntry
    /\ main.lastMusicXMLKey # Null

\* a note was tuned from an entry with neither cents nor ratio although the key
\* of the score asks for a pitch bend
C19_TunedFromEmptyEntry ==
    /\ lastOp.op = "handleNoteOn"
    /\ Len(QueueBefore(lastOp.arg[1])) > 0
    /\ Head(QueueBefore(lastOp.arg[1])) = NoTuningEntry
    /\ lastOp.ret.tuned.source = "predictive"
    /\ lastOp.ret.tuned.pitchBend = 0
    /\ ReactiveBend(lastOp.arg[1]) # 0

----------------------------------------------------------------------------
(* Predictive entries that ask for more than the pitch bend range of two   *)
(* semitones, played through either backend.                               *)

MaxRangeEvents == 4

\* the standard pitch bend range in cents: +-2 semitones
BendRangeCents == 200

WideEntry(cents) ==
    [note_id |-> 4, kind |-> "cents", cents |-> cents * CentUnit, ratio |-> <<1, 1>>,
     timestamp |-> 0, source |-> "score", key |-> Null, is_minor |-> FALSE]

RangeTables ==
    {<<[pitch |-> 60, entry |-> entry]>> :
       entry \in {WideEntry(150), WideEntry(200), WideEntry(250), WideEntry(-250)}}

InitRange ==
    /\ \E sysexEnabled \in BOOLEAN : main = MainInitial(sysexEnabled, "following")
    /\ mts = MtsInitial("none")
    /\ now = StartTime
    /\ device = DeviceInitial
    /\ lastOp = Loaded(MaxRangeEvents)
    /\ script = ScriptInitial("main.js")
    /\ audio = AudioInitial
    /\ channelPool = MPE_MEMBER_CHANNELS
    /\ activeNotes = <<>>
    /\ channelUsageOrder = <<>>
    /\ pitchBendRangeInitialized = FALSE
    /\ currentKey = Null
    /\ lastCall = [op |-> "init", id |-> Null, ret |-> [kind |-> "null"],
                   fresh |-> 0, others |-> 0, steals |-> 0, peak |-> 0]
    /\ held = {}
    /\ probe = IdleProbe

\* the two-stage client calls window.applyJITuning(ratioTable)
DeliverWide ==
    /\ lastOp.left > 0
    /\ \E items \in RangeTables :
         \E e \in {applyJITuning(Eng, items)} : Handled(e, "applyJITuning", items)

NextRange == StartSystem \/ NoteOn \/ NoteOff \/ DeliverWide

SpecRange == InitRange /\ [][NextRange]_vars

\* the deviation an entry asks for, in units
DeviationOf(entry) == IF entry.kind = "cents" THEN entry.cents ELSE Log2Cents[entry.ratio]

\* the pitch bend messages among those the last handler sent
BendsSent == SelectSeq(lastOp.sent, LAMBDA msg : msg.kind = "short" /\ msg.status \div 16 = 14)

\* the last handler was a note-on that consumed an entry asking for more than
\* the pitch bend range
OutOfRangeNoteOn ==
    /\ lastOp.op = "handleNoteOn"
    /\ Len(QueueBefore(lastOp.arg[1])) > 0
    /\ LET deviation == DeviationOf(Head(QueueBefore(lastOp.arg[1])))
       IN  deviation > BendRangeCents * CentUnit \/ deviation < 0 - BendRangeCents * CentUnit

\* C20: a note whose deviation exceeds the pitch bend range has no pitch bend
\* message sent for it, neither wrapped nor clamped.
C20_OutOfRangeNotSent ==
    OutOfRangeNoteOn => Len(BendsSent) = 0

\* a deviation of 250 cents has gone out as the largest pitch bend there is
C20_SentClamped ==
    /\ OutOfRangeNoteOn
    /\ Head(QueueBefore(lastOp.arg[1])) = WideEntry(250)
    /\ Len(BendsSent) = 1
    /\ BendsSent[1].data1 + 128 * BendsSent[1].data2 = 8191 + 8192

----------------------------------------------------------------------------
(* C21 *)

\* the last call was calculateJICentsForNote for pitch 61 in C major
CSharpInCMajor ==
    /\ probe.fn = "calculateJICentsForNote"
    /\ probe.midiNote = 61
    /\ probe.root = 0
    /\ ~probe.minor

\* C21: in C major pitch 61 has the deviation of 16/15 from 100 cents of equal
\* temperament, +11.73 cents to a hundredth of a cent.
C21_CSharpInCMajor ==
    CSharpInCMajor =>
      /\ probe.cents = Log2Cents[<<16, 15>>] - 100 * CentUnit
      /\ RoundDiv(probe.cents * 100, CentUnit) = 1173

\* the deviation of pitch 61 in C major has been computed, and it is positive
C21_Witness ==
    /\ CSharpInCMajor
    /\ probe.cents > 0
    /\ calculateJIPitchBend(61, KeyName(0, FALSE)) = centsToPitchBend(probe.cents)

----------------------------------------------------------------------------
(* The order of the messages a note-on and a note-off send to the output.  *)

\* the last handler forwarded a note-on to the external output
ForwardedNoteOn ==
    /\ lastOp.op = "handleNoteOn"
    /\ lastOp.ret.forwarded.kind = "forwarded"

\* msg is the note-on of the note the last handler was called with
IsNoteOnOf(msg, note) == msg.kind = "short" /\ msg.status \div 16 = 9 /\ msg.data1 = note

\* msg tunes the note that goes out on the channel: a pitch bend on that
\* channel, or a single-note tuning message for the pitch
TunesNote(msg, note, channel) ==
    \/ msg.kind = "short" /\ msg.status = BitOr(224, channel)
    \/ msg.kind = "singleNote" /\ msg.note = note

\* C22: a note-on forwarded to the external output has its tuning message, the
\* pitch bend on its channel or the single-note tuning message, sent before it.
C22_TuningBeforeNoteOn ==
    ForwardedNoteOn =>
      \E j \in 1..Len(lastOp.sent) :
        /\ IsNoteOnOf(lastOp.sent[j], lastOp.arg[1])
        /\ \E i \in 1..(j - 1) :
             TunesNote(lastOp.sent[i], lastOp.arg[1], lastOp.ret.forwarded.channel)

\* what holds: the note-on is the last message of its handler, on the channel
\* reported; with channel rotation a pitch bend on that channel precedes it;
\* with MTS a single-note tuning message precedes it when the bend is not zero
C22_NoteOnLast ==
    ForwardedNoteOn =>
      LET n == Len(lastOp.sent)
          note == lastOp.arg[1]
          channel == lastOp.ret.forwarded.channel
      IN  /\ n > 0
          /\ lastOp.sent[n] = Short(BitOr(144, channel), note, NoteVelocity)
          /\ \A i \in 1..(n - 1) : ~IsNoteOnOf(lastOp.sent[i], note)
          /\ (~lastOp.before.mtsSupported \/ lastOp.ret.tuned.pitchBend # 0)
                => \E i \in 1..(n - 1) : TunesNote(lastOp.sent[i], note, channel)

\* a note went out under MTS with nothing but its note-on although the pitch
\* has a single-note tuning on the device from an earlier note
C22_StaleSingleNoteTuning ==
    /\ ForwardedNoteOn
    /\ lastOp.before.mtsSupported
    /\ Len(lastOp.sent) = 1
    /\ lastOp.arg[1] \in DOMAIN device.noteTuning

\* the last handler forwarded the note-off of a note that owned a member channel
ReleasedNoteOff ==
    /\ lastOp.op = "handleNoteOff"
    /\ lastOp.ret.forwarded.kind = "forwarded"
    /\ lastOp.ret.noteId \in DOMAIN lastOp.before.activeNotes

\* the place of the note-off message among those the last handler sent
NoteOffAt ==
    CHOOSE j \in 1..Len(lastOp.sent) :
      /\ lastOp.sent[j].kind = "short"
      /\ lastOp.sent[j].status \div 16 = 8
      /\ lastOp.sent[j].data1 = lastOp.arg[1]

\* the i-th message of the last handler centres the pitch bend of the channel
CentresBend(i, channel) == lastOp.sent[i] = Short(BitOr(224, channel), 0, 64)

\* C23: on a note-off the release of the note (the bend reset and the release
\* of its channel) is done before the note-off message is sent.
C23_ReleaseBeforeNoteOff ==
    ReleasedNoteOff =>
      /\ lastOp.ret.forwarded.released
      /\ lastOp.ret.forwarded.releasedAfter < NoteOffAt
      /\ \E i \in 1..lastOp.ret.forwarded.releasedAfter :
           CentresBend(i, lastOp.ret.forwarded.channel)

\* the note-off has gone out before releaseChannel was called
C23_NoteOffThenRelease ==
    /\ ReleasedNoteOff
    /\ lastOp.ret.forwarded.released
    /\ NoteOffAt < lastOp.ret.forwarded.releasedAfter

\* C24: with channel rotation a note-off centres the pitch bend of the note's
\* channel before releaseChannel returns the channel to the free pool: the
\* centring message is on the wire when the channel is released, it is sent on
\* the channel the note owned, and the channel is free afterwards.
C24_BendCentredBeforeRelease ==
    ReleasedNoteOff =>
      LET channel == lastOp.before.activeNotes[lastOp.ret.noteId]
          after == lastOp.ret.forwarded.releasedAfter
      IN  /\ lastOp.ret.forwarded.released
          /\ lastOp.ret.forwarded.channel = channel
          /\ after >= 1
          /\ after > NoteOffAt
          /\ CentresBend(after, channel)
          /\ channel \notin Range(lastOp.before.channelPool)
          /\ channel \in Range(channelPool)
          /\ device.bend[channel] = 0

\* a note has been switched off while another pitch is still held: its channel
\* is centred and free again
C24_Witness ==
    /\ ReleasedNoteOff
    /\ lastOp.ret.forwarded.released
    /\ lastOp.ret.forwarded.channel = 1
    /\ lastOp.ret.forwarded.releasedAfter = 3
    /\ 1 \in Range(channelPool)
    /\ device.bend[1] = 0
    /\ 60 \in DOMAIN main.activeNoteStacks

----------------------------------------------------------------------------
(* C25 *)

\* the noteIds on the per-pitch stacks, each with the pitch of its stack
StackedIds ==
    UNION {{<<note, i>> : i \in 1..Len(main.activeNoteStacks[note])} :
             note \in DOMAIN main.activeNoteStacks}

IdAt(place) == main.activeNoteStacks[place[1]][place[2]]

\* C25: between resets of note tracking every note-on gets the next counter
\* value in its noteId, so ids grow strictly and the ids held on the per-pitch
\* stacks are pairwise distinct, re-triggers of one pitch included.
C25_FreshNoteIds ==
    /\ \A p \in StackedIds : IdAt(p)[1] < main.nextNoteId /\ IdAt(p)[2] = p[1]
    /\ \A p, q \in StackedIds : p # q => IdAt(p) # IdAt(q) /\ IdAt(p)[1] # IdAt(q)[1]
    /\ \A p, q \in StackedIds : (p[1] = q[1] /\ p[2] < q[2]) => IdAt(p)[1] < IdAt(q)[1]
    /\ lastOp.op = "handleNoteOn" => lastOp.ret.noteId[1] = main.nextNoteId - 1

\* a pitch has been struck again while it was held: its stack holds two ids
C25_Witness ==
    /\ lastOp.op = "handleNoteOn"
    /\ Len(Lookup(main.activeNoteStacks, lastOp.arg[1], <<>>)) = 2
    /\ main.nextNoteId = 3

----------------------------------------------------------------------------
(* The smoothing loop of script5.js: a key is held on the external output, *)
(* the key finder settles on a key and later on another, and animation     *)
(* frames come 17 or 34 ms apart.  The tempo tracker is left where a run   *)
(* of notes has put it: avgTime is 500 (its initial value) or 50.          *)

MaxSmoothEvents == 4
MaxFrames == 8
SmoothNote == 64
FrameTimes == {17, 34}

\* rootNote and scale of the keys the key finder settles on: A major, in which
\* the held E is the fifth, and E major, in which it is the tonic
SmoothKeys == {<<69, "major">>, <<64, "major">>}

InitSmooth ==
    /\ \E forcePbOnly \in BOOLEAN, avgTime \in {50, 500} :
         script = [ScriptInitial("script5.js") EXCEPT !.tuningSystem = "ji",
                                                      !.isTuningActive = TRUE,
                                                      !.forcePbOnly = forcePbOnly,
                                                      !.avgTime = avgTime]
    /\ audio = AudioInitial
    /\ main = MainInitial(FALSE, "no_client")
    /\ mts = MtsInitial("none")
    /\ now = StartTime
    /\ device = DeviceInitial
    /\ lastOp = Loaded(MaxSmoothEvents)
    /\ channelPool = MPE_MEMBER_CHANNELS
    /\ activeNotes = <<>>
    /\ channelUsageOrder = <<>>
    /\ pitchBendRangeInitialized = FALSE
    /\ currentKey = Null
    /\ lastCall = [op |-> "init", id |-> Null, ret |-> [kind |-> "null"],
                   fresh |-> 0, others |-> 0, steals |-> 0, peak |-> 0]
    /\ held = {}
    /\ probe = IdleProbe

\* the output device is chosen
SmoothSelectOutput ==
    /\ lastOp.left > 0
    /\ ~script.midiOutput
    /\ \E x \in {midiOutSelectChange(Scr, TRUE)} : ScriptRan(x, "midiOutSelectChange", <<TRUE>>)
    /\ UNCHANGED probe

\* the key goes down, an output being selected
SmoothKeyDown ==
    /\ lastOp.left > 0
    /\ script.midiOutput
    /\ SmoothNote \notin script.activeOnNotes
    /\ \E x \in {onNoteOn(Scr, SmoothNote, NoteVelocity)} : ScriptRan(x, "onNoteOn", <<SmoothNote>>)
    /\ UNCHANGED probe

\* the key finder settles on a new key while the key is held
KeyChange ==
    /\ lastOp.left > 0
    /\ SmoothNote \in script.activeOnNotes
    /\ \E key \in SmoothKeys :
         \E x \in {setKeyTargets(Scr, key[1], key[2])} :
           /\ x.script.targetCents # script.targetCents
           /\ ScriptRan(x, "runAnalysis", key)
    /\ UNCHANGED probe

\* an animation frame: smoothingLoop runs
Frame ==
    /\ lastOp.ticks < MaxFrames
    /\ \E dt \in FrameTimes :
         \E x \in {smoothingLoop(Scr, now + dt)} :
           /\ now' = now + dt
           /\ script' = x.script
           /\ device' = x.device
           /\ lastOp' = [op |-> "smoothingLoop", arg |-> <<now + dt>>, sent |-> x.sent,
                         ret |-> x.ret,
                         before |-> [MPE_CHANNELS |-> script.MPE_CHANNELS,
                                     activeNotesToMpeChannel |-> script.activeNotesToMpeChannel,
                                     lastMtsSendMs |-> script.lastMtsSendMs,
                                     currentTargetCents |-> script.currentTargetCents],
                         left |-> lastOp.left, ticks |-> lastOp.ticks + 1]
    /\ UNCHANGED <<mpeVars, drvVars, keyVars, probe, main, mts, audio>>

NextSmooth == SmoothSelectOutput \/ SmoothKeyDown \/ KeyChange \/ Frame

SpecSmooth == InitSmooth /\ [][NextSmooth]_vars

\* the notes that sound on the external output
SoundingNotes == script.activeOnNotes \cap DOMAIN script.activeNotesToMpeChannel

\* the deviation the device has been told for a held note, and the one the
\* smoothed value of its pitch class asks for, as the bytes or the bend that
\* carry them
ToldDeviation(note) ==
    IF ~script.forcePbOnly /\ script.sysExSupported
    THEN Lookup(device.noteTuning, note, createMtsSysex(Scr, note, 0).data)
    ELSE device.bend[script.activeNotesToMpeChannel[note]]

SmoothedDeviation(note) ==
    IF ~script.forcePbOnly /\ script.sysExSupported
    THEN createMtsSysex(Scr, note, script.currentTargetCents[note % 12]).data
    ELSE RoundDiv(script.currentTargetCents[note % 12] * (8192 \div CentUnit), 100)

\* the last step was a frame in which the held notes were retuned
BatchSent == lastOp.op = "smoothingLoop" /\ lastOp.ret = 1

\* C26: after a key change every note that sounds on the external output is
\* re-sent its smoothed deviation in every batch, batches are more than 33 ms
\* apart, and the smoothed value moves toward its target and never past it.
C26_HeldNotesFollowTarget ==
    /\ BatchSent => \A note \in SoundingNotes : ToldDeviation(note) = SmoothedDeviation(note)
    /\ BatchSent => lastOp.arg[1] - lastOp.before.lastMtsSendMs > 33
    /\ lastOp.op = "smoothingLoop" =>
         \A i \in 0..11 :
           LET was == lastOp.before.currentTargetCents[i]
               is == script.currentTargetCents[i]
               target == script.targetCents[i]
           IN  \/ was <= is /\ is <= target
               \/ target <= is /\ is <= was

\* what holds: batches are throttled and the smoothed value never overshoots
C26_ThrottledAndMonotone ==
    /\ BatchSent => lastOp.arg[1] - lastOp.before.lastMtsSendMs > 33
    /\ lastOp.op = "smoothingLoop" =>
         \A i \in 0..11 :
           LET was == lastOp.before.currentTargetCents[i]
               is == script.currentTargetCents[i]
               target == script.targetCents[i]
           IN  \/ was <= is /\ is <= target
               \/ target <= is /\ is <= was

\* a batch has left a held note where it was although its smoothed deviation
\* has come within a tenth of a cent of a target of zero
C26_StuckAboveTenthOfCent ==
    /\ BatchSent
    /\ SmoothNote \in SoundingNotes
    /\ ~script.forcePbOnly
    /\ script.targetCents[SmoothNote % 12] = 0
    /\ lastOp.sent = <<>>
    /\ ToldDeviation(SmoothNote) # createMtsSysex(Scr, SmoothNote, 0).data

\* with pitch bend forced, a batch has passed over a held note whose note-on
\* needed no bend
C26_BendNeverStarted ==
    /\ BatchSent
    /\ SmoothNote \in SoundingNotes
    /\ script.forcePbOnly
    /\ SmoothNote \notin script.notesUsingBend
    /\ ToldDeviation(SmoothNote) = 0
    /\ SmoothedDeviation(SmoothNote) > 0

----------------------------------------------------------------------------
(* The capability probes of script5.js.  Choosing an output runs the       *)
(* 'change' listener up to its first await; from there on the probe is a   *)
(* chain of promise reactions, each run by a reply of the device or by a   *)
(* timer.  A reaction runs in the microtask that follows the listener or   *)
(* the timer callback that resolved the promise, so it is part of that     *)
(* step.  Notes arrive through midiInput.onmidimessage, which is a handler *)
(* of its own, while waitForSysex listens with addEventListener on the     *)
(* port that midiInput names when the wait starts.  midiInput is a         *)
(* variable of the script: the input selector and a disconnect reassign    *)
(* it, and onMsg and the timer callback read it when they run.             *)

MaxProbeEvents == 4
MaxProbeTicks == 6
MaxProbes == 2

\* midiInput = null
NoInput == 0
InputPorts == {1, 2}

\* the clock moves in steps of at most 300 ms
ProbeTick == 300
IdentityTimeout == 500
DumpTimeout == 600
ProbeNote == 60

\* deviceId of the identity reply of the device
RepliedDeviceId == 5

ProbeInitial(input) ==
    [fn |-> "probe", midiInput |-> input, listeners |-> {}, waits |-> <<>>,
     started |-> 0, finished |-> 0, thrown |-> 0, inputChanges |-> 0]

\* the promise of wait w settles and the async function that awaits it goes on
probeFinished(s) == [s EXCEPT !.p.finished = @ + 1]

\* waitForSysex: with no input the promise is resolved with null at once and
\* no timer is set; otherwise onMsg is added to the selected input and the
\* timer is started
waitForSysex(s, kind, timeoutMs, nowMs) ==
    IF s.p.midiInput = NoInput
    THEN [s EXCEPT !.p.waits = Append(@, [kind |-> kind, addedTo |-> NoInput,
                                          started |-> nowMs, deadline |-> nowMs + timeoutMs,
                                          pending |-> FALSE, timerFired |-> TRUE,
                                          resolvedAt |-> nowMs,
                                          inputChanges |-> s.p.inputChanges,
                                          inputChanged |-> FALSE])]
    ELSE [s EXCEPT !.p.waits = Append(@, [kind |-> kind, addedTo |-> s.p.midiInput,
                                          started |-> nowMs, deadline |-> nowMs + timeoutMs,
                                          pending |-> TRUE, timerFired |-> FALSE,
                                          resolvedAt |-> 0,
                                          inputChanges |-> s.p.inputChanges,
                                          inputChanged |-> FALSE]),
                   !.p.listeners = @ \cup {<<s.p.midiInput, Len(s.p.waits) + 1>>}]

\* the wait started last is still pending
Awaiting(s) == s.p.waits[Len(s.p.waits)].pending

\* probeMtsDump up to its await, and the rest of afterOutputSelected when it
\* returns at once
probeMtsDump(s, nowMs) ==
    IF ~s.x.script.midiOutput \/ s.p.midiInput = NoInput
    THEN probeFinished(s)
    ELSE Bind(waitForSysex([s EXCEPT !.x = Send(@, [kind |-> "inquiry",
                                     data |-> <<240, 126, s.x.script.lastDeviceId, 8, 0, 0, 247>>])],
                           "dump", DumpTimeout, nowMs),
              LAMBDA s1 : IF Awaiting(s1) THEN s1 ELSE probeFinished(s1))

\* probeIdentity up to its await
probeIdentity(s, nowMs) ==
    IF ~s.x.script.midiOutput \/ s.p.midiInput = NoInput
    THEN probeMtsDump(s, nowMs)
    ELSE Bind(waitForSysex([s EXCEPT !.x = Send(@, ProbeMessages[1])],
                           "identity", IdentityTimeout, nowMs),
              LAMBDA s1 : IF Awaiting(s1) THEN s1 ELSE probeMtsDump(s1, nowMs))

\* resolve(value) of wait w: the first call settles the promise, and the
\* async function that awaits it runs on
resolveWait(s, w, replied, nowMs) ==
    IF ~s.p.waits[w].pending
    THEN s
    ELSE Bind([s EXCEPT !.p.waits[w].pending = FALSE, !.p.waits[w].resolvedAt = nowMs,
                        !.p.waits[w].inputChanged =
                            (s.p.inputChanges # s.p.waits[w].inputChanges)],
              LAMBDA s1 :
                IF s1.p.waits[w].kind = "identity"
                THEN probeMtsDump(IF replied
                                  THEN [s1 EXCEPT !.x.script.lastDeviceId = RepliedDeviceId]
                                  ELSE s1, nowMs)
                ELSE probeFinished(s1))

\* midiInput.removeEventListener('midimessage', onMsg) of wait w
removeListener(s, w) == [s EXCEPT !.p.listeners = @ \ {<<s.p.midiInput, w>>}]

\* onMsg of wait w, a system exclusive message of the given kind arriving
onMsg(s, w, kind, nowMs) ==
    IF kind # s.p.waits[w].kind
    THEN s
    ELSE IF s.p.midiInput = NoInput
         THEN [s EXCEPT !.p.thrown = @ + 1]
         ELSE resolveWait(removeListener(s, w), w, TRUE, nowMs)

\* the callback of setTimeout of wait w
waitTimedOut(s, w, nowMs) ==
    Bind([s EXCEPT !.p.waits[w].timerFired = TRUE],
         LAMBDA s1 :
           resolveWait(IF s1.p.midiInput = NoInput THEN s1 ELSE removeListener(s1, w),
                       w, FALSE, nowMs))

\* the listeners of a port run in the order they were added
RECURSIVE DispatchSysex(_, _, _, _, _)
DispatchSysex(s, port, kind, w, nowMs) ==
    IF w > Len(s.p.waits)
    THEN s
    ELSE DispatchSysex(IF <<port, w>> \in s.p.listeners THEN onMsg(s, w, kind, nowMs) ELSE s,
                       port, kind, w + 1, nowMs)

\* the synchronous part of the midiOutSelect 'change' listener, an output chosen
midiOutSelected(x) ==
    Bind([resetAllMidiState(x) EXCEPT !.script.midiOutput = TRUE],
         LAMBDA x1 :
           Bind(setPitchBendRangeAllChannels(x1, 1, 0),
                LAMBDA x2 : Send(x2, Short(BitOr(176, 0), 122, 0))))

ProbeState == [x |-> Scr, p |-> probe]

InitProbe ==
    /\ script = [ScriptInitial("script5.js") EXCEPT !.tuningSystem = "ji",
                                                  !.isTuningActive = TRUE]
    /\ audio = AudioInitial
    /\ main = MainInitial(FALSE, "no_client")
    /\ mts = MtsInitial("none")
    /\ now = StartTime
    /\ device = DeviceInitial
    /\ lastOp = Loaded(MaxProbeEvents)
    /\ channelPool = MPE_MEMBER_CHANNELS
    /\ activeNotes = <<>>
    /\ channelUsageOrder = <<>>
    /\ pitchBendRangeInitialized = FALSE
    /\ currentKey = Null
    /\ lastCall = [op |-> "init", id |-> Null, ret |-> [kind |-> "null"],
                   fresh |-> 0, others |-> 0, steals |-> 0, peak |-> 0]
    /\ held = {}
    /\ \E input \in {NoInput} \cup InputPorts : probe = ProbeInitial(input)

\* a step of the probes from ProbeState to s
ProbeRan(s, op, arg, events, ticks) ==
    /\ script' = s.x.script
    /\ device' = s.x.device
    /\ probe' = s.p
    /\ lastOp' = [op |-> op, arg |-> arg, sent |-> s.x.sent, ret |-> s.x.ret,
                  before |-> [MPE_CHANNELS |-> script.MPE_CHANNELS,
                              activeNotesToMpeChannel |-> script.activeNotesToMpeChannel,
                              waiting |-> {w \in 1..Len(probe.waits) : probe.waits[w].pending},
                              sysExSupported |-> script.sysExSupported],
                  left |-> lastOp.left - events, ticks |-> lastOp.ticks + ticks]
    /\ UNCHANGED <<mpeVars, drvVars, keyVars, main, mts, audio>>

\* the input selector changes, or the selected input is unplugged
ProbeInputChanges ==
    /\ lastOp.left > 0
    /\ \E input \in ({NoInput} \cup InputPorts) \ {probe.midiInput} :
         ProbeRan([ProbeState EXCEPT !.p.midiInput = input, !.p.inputChanges = @ + 1],
                  "midiInSelectChange", <<input>>, 1, 0)
    /\ UNCHANGED now

\* an output is chosen: the listener runs up to the first await
ProbeSelectOutput ==
    /\ lastOp.left > 0
    /\ probe.started < MaxProbes
    /\ \E s \in {probeIdentity([x |-> midiOutSelected(Scr),
                                p |-> [probe EXCEPT !.started = @ + 1]], now)} :
         ProbeRan(s, "midiOutSelectChange", <<TRUE>>, 1, 0)
    /\ UNCHANGED now

\* the device answers an inquiry on one of the input ports
ProbeDeviceReplies ==
    /\ lastOp.left > 0
    /\ \E port \in InputPorts, kind \in {"identity", "dump"} :
         /\ \E w \in 1..Len(probe.waits) : probe.waits[w].addedTo = port
         /\ \E s \in {DispatchSysex(ProbeState, port, kind, 1, now)} :
              ProbeRan(s, "sysex", <<port, kind>>, 1, 0)
    /\ UNCHANGED now

\* a timer of waitForSysex runs out
ProbeTimeout ==
    /\ \E w \in 1..Len(probe.waits) :
         /\ ~probe.waits[w].timerFired
         /\ now >= probe.waits[w].deadline
         /\ \E s \in {waitTimedOut(ProbeState, w, now)} : ProbeRan(s, "timeout", <<w>>, 0, 0)
    /\ UNCHANGED now

\* a key goes down or up on the selected input
ProbeNoteOn ==
    /\ lastOp.left > 0
    /\ probe.midiInput # NoInput
    /\ ProbeNote \notin script.activeOnNotes
    /\ \E x \in {onNoteOn(Scr, ProbeNote, NoteVelocity)} :
         ProbeRan([x |-> x, p |-> probe], "onNoteOn", <<ProbeNote>>, 1, 0)
    /\ UNCHANGED now

ProbeNoteOff ==
    /\ lastOp.left > 0
    /\ probe.midiInput # NoInput
    /\ ProbeNote \in script.activeOnNotes
    /\ \E x \in {onNoteOff(Scr, ProbeNote)} :
         ProbeRan([x |-> x, p |-> probe], "onNoteOff", <<ProbeNote>>, 1, 0)
    /\ UNCHANGED now

\* the deadlines of the timers that are still to run
Deadlines == {probe.waits[w].deadline : w \in {v \in 1..Len(probe.waits) : ~probe.waits[v].timerFired}}

\* time passes, up to the next deadline; a timer that is due runs before the
\* clock moves on
ProbeTime ==
    /\ lastOp.ticks < MaxProbeTicks
    /\ \A deadline \in Deadlines : now < deadline
    /\ now' = CHOOSE t \in {now + ProbeTick} \cup Deadlines :
                  \A u \in {now + ProbeTick} \cup Deadlines : t <= u
    /\ ProbeRan(ProbeState, "time", <<>>, 0, 1)

NextProbe ==
    \/ ProbeInputChanges
    \/ ProbeSelectOutput
    \/ ProbeDeviceReplies
    \/ ProbeTimeout
    \/ ProbeNoteOn
    \/ ProbeNoteOff
    \/ ProbeTime

SpecProbe == InitProbe /\ [][NextProbe]_vars

Waits == 1..Len(probe.waits)

\* a note that arrived while a wait was pending has been handled in that
\* step, with the backend the script had before it: the key is tracked, and
\* with an output selected the note-on has gone out
NotesHandledWhileWaiting ==
    (lastOp.op \in {"onNoteOn", "onNoteOff", "sysex", "timeout"} /\ lastOp.before.waiting # {}) =>
      /\ script.sysExSupported = lastOp.before.sysExSupported
      /\ lastOp.op = "onNoteOn" =>
           /\ ProbeNote \in script.activeOnNotes
           /\ script.midiOutput =>
                \E i \in 1..Len(lastOp.sent) : IsNoteOnOf(lastOp.sent[i], ProbeNote)
      /\ lastOp.op = "onNoteOff" => ProbeNote \notin script.activeOnNotes

\* C27: a capability probe never stalls note handling and always finishes:
\* every wait is resolved no later than its timeout after it began, whether
\* the device has answered or not, no listener of a resolved wait is left on
\* any port, and a note-on or note-off that arrives while a wait is pending
\* is forwarded in the same step with the backend chosen before the probe.
C27_ProbeNeverStalls ==
    /\ probe.fn = "probe"
    /\ \A w \in Waits :
         /\ probe.waits[w].pending => now <= probe.waits[w].deadline
         /\ ~probe.waits[w].pending =>
              /\ probe.waits[w].resolvedAt <= probe.waits[w].deadline
              /\ \A port \in InputPorts : <<port, w>> \notin probe.listeners
    /\ NotesHandledWhileWaiting

\* the same without the removal of the listener: every wait is resolved in
\* time, and notes are forwarded while a wait is pending
C27_ResolvedInTime ==
    /\ probe.fn = "probe"
    /\ \A w \in Waits :
         /\ probe.waits[w].pending => now <= probe.waits[w].deadline
         /\ ~probe.waits[w].pending =>
              probe.waits[w].resolvedAt <= probe.waits[w].deadline
    /\ NotesHandledWhileWaiting

\* a wait during which the input selection did not change leaves no listener
\* behind when it is resolved
C27_RemovedFromSelectedInput ==
    \A w \in Waits :
      (~probe.waits[w].pending /\ ~probe.waits[w].inputChanged) =>
        \A port \in InputPorts : <<port, w>> \notin probe.listeners

\* a wait has run out after the input was changed, and its listener is still
\* on the port it was added to
C27_ListenerLeftBehind ==
    \E w \in Waits :
      /\ ~probe.waits[w].pending
      /\ probe.waits[w].timerFired
      /\ <<probe.waits[w].addedTo, w>> \in probe.listeners

\* a note has been forwarded while a wait was pending
C27_NoteDuringProbe ==
    /\ lastOp.op = "onNoteOn"
    /\ lastOp.before.waiting # {}
    /\ Len(lastOp.sent) > 0

\* both probes of one selection have been answered by the device
C27_BothAnswered ==
    /\ probe.fn = "probe"
    /\ probe.finished > 0
    /\ script.lastDeviceId = RepliedDeviceId
    /\ \E w \in Waits : probe.waits[w].kind = "dump" /\ ~probe.waits[w].timerFired
                        /\ ~probe.waits[w].pending

----------------------------------------------------------------------------
(* buildScaleOctaveTuning2Byte called directly, byte by byte.  Cents are in *)
(* hundredths of a cent; the arrays are the tables of the 24 keys and      *)
(* arrays of 0, 11, 12 and 13 entries with one entry set apart.  Each call  *)
(* starts from the loaded module: the function keeps no state.             *)

MaxScaleLength == 13

\* channelMask: 'all' (the default, and what sendScaleOctaveTuning passes), an
\* array of three MIDI data bytes, anything else
AllChannels == [kind |-> "all"]
OtherMask == [kind |-> "other"]
MaskArray(ff, gg, hh) == [kind |-> "array", bytes |-> <<ff, gg, hh>>]

\* ff, gg, hh of buildScaleOctaveTuning2Byte
ChannelMaskBytes(channelMask) ==
    IF channelMask.kind = "all"
    THEN <<3, 127, 127>>
    ELSE IF channelMask.kind = "array"
         THEN <<channelMask.bytes[1] % 4, channelMask.bytes[2], channelMask.bytes[3]>>
         ELSE <<3, 127, 127>>

\* the bytes of the message of buildScaleOctaveTuning2Byte(centsArray, channelMask),
\* Null when it returns null
ScaleOctaveBytes(centsArray, channelMask) ==
    IF Len(centsArray) # 12
    THEN Null
    ELSE <<240, 127, 127, 8, 9>> \o ChannelMaskBytes(channelMask)
           \o [i \in 1..24 |-> ScaleOctaveEntry(centsArray[(i + 1) \div 2])[2 - (i % 2)]]
           \o <<247>>

ScaleCents == {-20000, -10001, -10000, -1564, 0, 1, 1173, 10000, 15000}
ScaleRest == {0, -1369, 12000}
ScaleLengths == {0, 11, 12, MaxScaleLength}
ScaleMasks ==
    {AllChannels, OtherMask}
      \cup {MaskArray(ff, gg, hh) : ff \in {3, 7}, gg \in {0, 64, 127}, hh \in {0, 127}}

outsideScale == <<mpeVars, drvVars, keyVars, engVars>>

InitScale ==
    /\ probe = IdleProbe
    /\ OutsideTuningInit

\* one entry of the array differs from the rest
CallBuildScaleOctave ==
    /\ probe = IdleProbe
    /\ \E length \in ScaleLengths, k \in 1..12, cents \in ScaleCents, rest \in ScaleRest,
          channelMask \in ScaleMasks :
         \E centsArray \in {[i \in 1..length |-> IF i = k THEN cents ELSE rest]} :
           probe' = [fn |-> "buildScaleOctaveTuning2Byte", centsArray |-> centsArray,
                     channelMask |-> channelMask,
                     message |-> ScaleOctaveBytes(centsArray, channelMask)]
    /\ UNCHANGED outsideScale

\* sendScaleOctaveTuning: buildScaleOctaveTuning2Byte(centsArray) with the table of a key
CallBuildForKey ==
    /\ probe = IdleProbe
    /\ \E root \in 0..11, minor \in BOOLEAN :
         \E table \in {calculateScaleOctaveTuning(root, minor)} :
           \E centsArray \in {[i \in 1..12 |-> table[i - 1]]} :
             probe' = [fn |-> "buildScaleOctaveTuning2Byte", centsArray |-> centsArray,
                       channelMask |-> AllChannels,
                       message |-> ScaleOctaveBytes(centsArray, AllChannels)]
    /\ UNCHANGED outsideScale

NextScale == CallBuildScaleOctave \/ CallBuildForKey

SpecScale == InitScale /\ [][NextScale]_vars

BuiltScaleOctave == probe.fn = "buildScaleOctaveTuning2Byte"

\* the 14-bit value the message carries for entry i of the array
CarriedValue(i) == probe.message[7 + 2 * i] * 128 + probe.message[8 + 2 * i]

\* the deviation of entry i, limited to -100..+100 cents
LimitedCents(i) == Max(-10000, Min(10000, probe.centsArray[i]))

\* the array has 12 entries: one message of 33 bytes, F0 first and F7 last,
\* that carries for each entry the 14-bit value nearest to
\* (cents + 100) / 200 * 16383 of the deviation limited to -100..+100 cents,
\* as two bytes of 7 bits; 0 cents is carried as 8192
TwelveDeviationsCarried ==
    Len(probe.centsArray) = 12 =>
      /\ Len(probe.message) = 33
      /\ probe.message[1] = 240
      /\ probe.message[33] = 247
      /\ \A i \in 1..12 :
           /\ probe.message[7 + 2 * i] \in 0..127
           /\ probe.message[8 + 2 * i] \in 0..127
           /\ CarriedValue(i) * 20000 - (LimitedCents(i) + 10000) * 16383 \in -9999..10000
           /\ probe.centsArray[i] = 0 => CarriedValue(i) = 8192
           /\ probe.centsArray[i] <= -10000 => CarriedValue(i) = 0
           /\ probe.centsArray[i] >= 10000 => CarriedValue(i) = 16383

\* every byte between the first and the last is a data byte
DataBytesOnly ==
    Len(probe.centsArray) = 12 => \A j \in 2..32 : probe.message[j] \in 0..127

\* C28: given 12 cents values the message has 33 bytes and carries
\* the 12 deviations, limited to -100..+100 cents, as 14-bit values in two
\* 7-bit bytes each with 0 cents as 8192, and every byte between F0 and F7 is
\* at most 0x7F; an array that does not have 12 entries gives no message.
C28_ScaleOctaveMessage ==
    BuiltScaleOctave =>
      /\ TwelveDeviationsCarried
      /\ DataBytesOnly
      /\ Len(probe.centsArray) # 12 => probe.message = Null

\* a message has been built from 12 entries of which one is beyond +100 cents
\* and the others are not 0, under a mask given as an array of 7-bit bytes
C28_Witness ==
    /\ BuiltScaleOctave
    /\ Len(probe.centsArray) = 12
    /\ probe.centsArray[5] = 15000
    /\ probe.centsArray[1] = -1369
    /\ probe.channelMask = MaskArray(7, 0, 127)
    /\ Len(probe.message) = 33
    /\ CarriedValue(5) = 16383

\* an array of 13 entries has given no message
C28_NoMessage ==
    /\ BuiltScaleOctave
    /\ Len(probe.centsArray) = MaxScaleLength
    /\ probe.message = Null

----------------------------------------------------------------------------
(* Pitch 7.25 of tuning-midi2.js.  A 32-bit word is kept as its two 16-bit  *)
(* halves <<high, low>>, so that bit 31 is a bit of the model as it is of   *)
(* the int32 that << and | give.  Cents are in hundredths of a cent.       *)

\* RESOLUTION.PITCH_7_25_FRACTIONAL_MAX = 0x1FFFFFF
PITCH_7_25_FRACTIONAL_MAX == 33554431

\* Math.floor(totalSemitones), totalSemitones = semitone + cents / 100
FloorSemitones(semitone, cents) == semitone + (cents \div 10000)

\* Math.round(fractional * 0x1FFFFFF) & 0x1FFFFFF, fractional being
\* (cents mod 10000) / 10000; 0x1FFFFFF = 3355 * 10000 + 4431
Fractional25bit(cents) ==
    (((cents % 10000) * 3355) + RoundDiv((cents % 10000) * 4431, 10000))
      % (PITCH_7_25_FRACTIONAL_MAX + 1)

\* (semitoneInt << 25) | fractional25bit, as the halves of the word
Word725(semitoneInt, fractional25bit) ==
    <<semitoneInt * 512 + (fractional25bit \div 65536), fractional25bit % 65536>>

\* a conversion that limits the semitone to 0..127 where the code masks it
centsToPitch725Clamped(semitone, cents) ==
    IF FloorSemitones(semitone, cents) < 0
    THEN Word725(0, 0)
    ELSE IF FloorSemitones(semitone, cents) > 127
         THEN Word725(127, PITCH_7_25_FRACTIONAL_MAX)
         ELSE Word725(FloorSemitones(semitone, cents), Fractional25bit(cents))

\* centsToPitch725(semitone, cents): semitoneInt = Math.floor(totalSemitones) & 0x7F
centsToPitch725(semitone, cents) ==
    Word725(FloorSemitones(semitone, cents) % 128, Fractional25bit(cents))

\* the int32 that centsToPitch725 returns is negative: bit 31 is set
NegativeInt32(word) == word[1] >= 32768

\* word2 of encodePerNotePitch725UMP: pitch725Value >>> 0, the same bits read
\* as an unsigned number
encodePerNotePitch725UMP(channel, noteNumber, pitch725Value) ==
    [word1 |-> <<4 * 4096 + (channel % 16), (noteNumber % 128) * 256 + 3>>,
     word2 |-> pitch725Value]

\* the top 7 bits and the low 25 bits of a word
Top7(word) == word[1] \div 512
Low25(word) == (word[1] % 512) * 65536 + word[2]

MaxPitchNote == 127
PitchNotes == {0, 1, 59, 63, 64, MaxPitchNote}
PitchCents == {-20000, -10000, -1369, -1, 0, 1, 1173, 5000, 9999, 10000, 15000}

outsidePitch == <<mpeVars, drvVars, keyVars, engVars>>

InitPitch ==
    /\ probe = IdleProbe
    /\ OutsideTuningInit

Pitch725Called(note, cents) ==
    \E value \in {centsToPitch725(note, cents)} :
      probe' = [fn |-> "centsToPitch725", semitone |-> note, cents |-> cents,
                value |-> value, ump |-> encodePerNotePitch725UMP(0, note, value)]

\* centsToPitch725 called with a note and a deviation
CallCentsToPitch725 ==
    /\ probe = IdleProbe
    /\ \E note \in PitchNotes, cents \in PitchCents : Pitch725Called(note, cents)
    /\ UNCHANGED outsidePitch

\* applyJITuning: for (let note = 0; note < 128; note++) with the table of the key
CallApplyJITuningNote ==
    /\ probe = IdleProbe
    /\ \E note \in 0..MaxPitchNote, root \in 0..11, minor \in BOOLEAN :
         Pitch725Called(note, calculateScaleOctaveTuning(root, minor)[note % 12])
    /\ UNCHANGED outsidePitch

NextPitch == CallCentsToPitch725 \/ CallApplyJITuningNote

SpecPitch == InitPitch /\ [][NextPitch]_vars

Pitch725Built == probe.fn = "centsToPitch725"

\* floor(semitone + cents / 100) of the call
TargetSemitone == probe.semitone + (probe.cents \div 10000)

\* C29: the encoded word is a non-negative 32-bit value whose top 7 bits are
\* floor(semitone + cents/100) and whose low 25 bits are the fraction; a
\* target below 0 or from 128 semitones up is clamped to the nearest end of
\* the range and never wrapped.
C29_Pitch725Clamped ==
    Pitch725Built =>
      /\ probe.ump.word2[1] \in 0..65535
      /\ probe.ump.word2[2] \in 0..65535
      /\ TargetSemitone \in 0..127 =>
           /\ Top7(probe.ump.word2) = TargetSemitone
           /\ Low25(probe.ump.word2) \in 0..PITCH_7_25_FRACTIONAL_MAX
           /\ (Low25(probe.ump.word2) - (probe.cents % 10000) * 3355) * 10000
                - (probe.cents % 10000) * 4431 \in -5000..5000
      /\ TargetSemitone < 0 => probe.ump.word2 = <<0, 0>>
      /\ TargetSemitone > 127 => Top7(probe.ump.word2) = 127

\* the same for targets within 0..127 semitones only
C29_InRangeEncoded ==
    (Pitch725Built /\ TargetSemitone \in 0..127) =>
      /\ probe.ump.word2[1] \in 0..65535
      /\ probe.ump.word2[2] \in 0..65535
      /\ Top7(probe.ump.word2) = TargetSemitone
      /\ Low25(probe.ump.word2) = Fractional25bit(probe.cents)

\* note 0 of applyJITuning with a negative deviation is encoded as semitone 127
C29_NoteZeroWraps ==
    /\ Pitch725Built
    /\ probe.semitone = 0
    /\ probe.cents \in -9999..-1
    /\ Top7(probe.ump.word2) = 127

\* a target of 128 semitones or more is encoded in the bottom semitones
C29_TopWraps ==
    /\ Pitch725Built
    /\ TargetSemitone > 127
    /\ Top7(probe.ump.word2) < 2

\* from note 64 up centsToPitch725 itself returns a negative int32, which
\* encodePerNotePitch725UMP reads as unsigned
C29_NegativeReturn ==
    /\ Pitch725Built
    /\ probe.semitone = 64
    /\ NegativeInt32(probe.value)

----------------------------------------------------------------------------
(* C30 *)

\* C30: after any sequence of allocateChannel, releaseChannel and
\* resetMPEState calls the free pool and the channels owned by active notes
\* are disjoint and together are the member channels 1..15, no channel has
\* two owners, the master channel 0 is neither owned nor returned, and the
\* usage order lists exactly the active noteIds, each once.
C30_PoolAndOwnersPartition ==
    /\ Range(channelPool) \cap Owned = {}
    /\ Range(channelPool) \cup Owned = Range(MPE_MEMBER_CHANNELS)
    /\ Len(channelPool) = Cardinality(Range(channelPool))
    /\ NoSharedChannel
    /\ MPE_MASTER_CHANNEL \notin Owned
    /\ lastCall.ret.kind \in {"number", "steal"} => lastCall.ret.channel # MPE_MASTER_CHANNEL
    /\ Range(channelUsageOrder) = DOMAIN activeNotes
    /\ Len(channelUsageOrder) = Cardinality(DOMAIN activeNotes)

\* a channel has been stolen, and a later release has put a channel back
\* while other notes still own theirs
C30_Witness ==
    /\ lastCall.steals > 0
    /\ lastCall.op = "release"
    /\ Len(channelPool) > 0
    /\ Cardinality(DOMAIN activeNotes) = NumMemberChannels - 1

----------------------------------------------------------------------------
(* C31 *)

\* the channel of a channel voice message
ChannelOf(msg) == msg.status % 16

\* the step is a note-off handled with channel rotation for a pitch the
\* device is sounding on one channel, the channel its note-on went out on
RotationNoteOff ==
    /\ lastOp' # lastOp
    /\ lastOp'.op = "handleNoteOff"
    /\ main.isRunning
    /\ main.selectedOutput
    /\ ~mts.mtsSupported
    /\ Cardinality(SoundingChannels(device, lastOp'.arg[1])) = 1

\* the channels that notes other than noteId own
OwnedByOthers(noteId) == {activeNotes[id] : id \in DOMAIN activeNotes \ {noteId}}

\* C31: with channel rotation the note-off message and the final bend reset
\* of a note go out on the member channel its note-on went out on, also when
\* a later note has stolen that channel in between, and no note-off or bend
\* reset goes out on a channel that another sounding note owns.
C31_NoteOffOnChannelOfNoteOn ==
    [][RotationNoteOff =>
         \E channel \in SoundingChannels(device, lastOp'.arg[1]) :
           /\ \E j \in 1..Len(lastOp'.sent) :
                lastOp'.sent[j] = Short(BitOr(128, channel), lastOp'.arg[1], 0)
           /\ \E i \in 1..Len(lastOp'.sent) :
                lastOp'.sent[i] = Short(BitOr(224, channel), 0, 64)
           /\ \A i \in 1..Len(lastOp'.sent) :
                ChannelOf(lastOp'.sent[i]) \notin OwnedByOthers(lastOp'.ret.noteId)]_vars

\* the same for a note that still owns its channel when the note-off arrives
C31_OwnerNoteOffOnItsChannel ==
    [][(RotationNoteOff /\ lastOp'.ret.noteId \in DOMAIN activeNotes) =>
         \E channel \in SoundingChannels(device, lastOp'.arg[1]) :
           /\ channel = activeNotes[lastOp'.ret.noteId]
           /\ \E j \in 1..Len(lastOp'.sent) :
                lastOp'.sent[j] = Short(BitOr(128, channel), lastOp'.arg[1], 0)
           /\ \E i \in 1..Len(lastOp'.sent) :
                lastOp'.sent[i] = Short(BitOr(224, channel), 0, 64)
           /\ \A i \in 1..Len(lastOp'.sent) :
                ChannelOf(lastOp'.sent[i]) \notin OwnedByOthers(lastOp'.ret.noteId)]_vars

\* the first key of the cluster, whose channel the 16th key has taken, has
\* been released: its note-off went out on the input channel, and the device
\* still sounds it on member channel 1
C31_StolenNoteOffOnInputChannel ==
    /\ lastOp.op = "handleNoteOff"
    /\ lastOp.arg = <<LowestKey>>
    /\ lastOp.ret.noteId \notin DOMAIN lastOp.before.activeNotes
    /\ \E j \in 1..Len(lastOp.sent) :
         lastOp.sent[j] = Short(BitOr(128, InputChannel), LowestKey, 0)
    /\ <<1, LowestKey>> \in device.sounding

----------------------------------------------------------------------------
(* The pitch-keyed channel table of script5.js under note-ons and          *)
(* note-offs of a few pitches.  A pitch may be struck again before it is    *)
(* released (two keyboards merged on one input, or a retrigger); probe.down *)
(* counts, for each pitch, the note-ons not yet answered by a note-off.     *)

MaxTableEvents == 7
MaxOverlap == 2
TableNotes == {60, 64, 67}

InitTable ==
    /\ script = ScriptInitial("script5.js")
    /\ audio = AudioInitial
    /\ main = MainInitial(FALSE, "no_client")
    /\ mts = MtsInitial("none")
    /\ now = StartTime
    /\ device = DeviceInitial
    /\ lastOp = Loaded(MaxTableEvents)
    /\ channelPool = MPE_MEMBER_CHANNELS
    /\ activeNotes = <<>>
    /\ channelUsageOrder = <<>>
    /\ pitchBendRangeInitialized = FALSE
    /\ currentKey = Null
    /\ lastCall = [op |-> "init", id |-> Null, ret |-> [kind |-> "null"],
                   fresh |-> 0, others |-> 0, steals |-> 0, peak |-> 0]
    /\ held = {}
    /\ probe = [fn |-> "table", down |-> [note \in TableNotes |-> 0], overlapped |-> FALSE]

\* an output device is selected
TableSelectOutput ==
    /\ lastOp.left > 0
    /\ ~script.midiOutput
    /\ \E x \in {midiOutSelectChange(Scr, TRUE)} : ScriptRan(x, "midiOutSelectChange", <<TRUE>>)
    /\ UNCHANGED probe

\* onMIDIMessage, note on
TableNoteOn ==
    /\ lastOp.left > 0
    /\ \E note \in TableNotes :
         /\ probe.down[note] < MaxOverlap
         /\ \E x \in {onNoteOn(Scr, note, NoteVelocity)} : ScriptRan(x, "onNoteOn", <<note>>)
         /\ probe' = [probe EXCEPT !.down[note] = @ + 1,
                                   !.overlapped = @ \/ probe.down[note] > 0]

\* onMIDIMessage, note off
TableNoteOff ==
    /\ lastOp.left > 0
    /\ \E note \in TableNotes :
         /\ probe.down[note] > 0
         /\ \E x \in {onNoteOff(Scr, note)} : ScriptRan(x, "onNoteOff", <<note>>)
         /\ probe' = [probe EXCEPT !.down[note] = @ - 1]

NextTable == TableSelectOutput \/ TableNoteOn \/ TableNoteOff

SpecTable == InitTable /\ [][NextTable]_vars

\* every note-on has been answered by a note-off
AllAnswered == probe.fn = "table" /\ \A note \in TableNotes : probe.down[note] = 0

\* the slots of the table that are marked in use
SlotsInUse == {i \in 1..15 : script.MPE_CHANNELS[i].inUse}

\* C32: once every note-on has been answered by a note-off, overlapping
\* note-ons of one pitch included, all 15 slots of the channel table are free.
C32_NoSlotLeftInUse ==
    AllAnswered => SlotsInUse = {}

\* the same as long as no pitch has been struck while it was down
C32_NoSlotLeftWithoutOverlap ==
    (AllAnswered /\ ~probe.overlapped) => SlotsInUse = {}

\* a pitch struck twice and released twice has left its first slot in use
C32_SlotLeaked ==
    /\ AllAnswered
    /\ lastOp.op = "onNoteOff"
    /\ script.MPE_CHANNELS[1].inUse
    /\ script.MPE_CHANNELS[1].note = 60
    /\ script.activeNotesToMpeChannel = <<>>

----------------------------------------------------------------------------
(* C33 *)

\* the single-note tuning the device applies to a pitch: the data of the last
\* single-note tuning message for it, equal temperament when there was none
TuningInEffect(dev, note) ==
    IF note \in DOMAIN dev.noteTuning THEN dev.noteTuning[note] ELSE <<note, 0, 0>>

\* the last handler forwarded a note-on with MTS as the backend
MtsNoteOn == ForwardedNoteOn /\ lastOp.before.mtsSupported

\* C33: with MTS, after a note-on has been forwarded the single-note tuning in
\* effect at the device for the pitch is the deviation resolved for that
\* note-on, also when that deviation is 0 and an earlier note of the pitch
\* was retuned by a single-note tuning message.
C33_TuningInEffectIsResolved ==
    MtsNoteOn =>
      TuningInEffect(device, lastOp.arg[1]) =
        centsToMTSFrequencyData(lastOp.arg[1], pitchBendToCents(lastOp.ret.tuned.pitchBend))

\* the same for the note-ons whose resolved deviation is not 0
C33_RetunedWhenNotZero ==
    (MtsNoteOn /\ lastOp.ret.tuned.pitchBend # 0) =>
      TuningInEffect(device, lastOp.arg[1]) =
        centsToMTSFrequencyData(lastOp.arg[1], pitchBendToCents(lastOp.ret.tuned.pitchBend))

\* a note-on resolved to 0 has gone out while the device still detunes the pitch
C33_ZeroLeavesEarlierTuning ==
    /\ MtsNoteOn
    /\ lastOp.ret.tuned.pitchBend = 0
    /\ TuningInEffect(device, lastOp.arg[1]) # <<lastOp.arg[1], 0, 0>>

----------------------------------------------------------------------------
(* The device id of the single-note tuning messages of script5.js.  Two    *)
(* output devices can be chosen, one after the other: the first answers    *)
(* the identity request with its id, the second answers nothing.  Tuning   *)
(* is active and the pitch of the key is off equal temperament, so every   *)
(* note-on sends a single-note tuning message.                             *)

MaxIdEvents == 5
Broadcast == 127
AnsweringDevice == 1
SilentDevice == 2
OutputDevices == {AnsweringDevice, SilentDevice}

InitDeviceId ==
    /\ script = [ScriptInitial("script5.js")
                   EXCEPT !.tuningSystem = "ji", !.isTuningActive = TRUE,
                          !.currentTargetCents = [pc \in 0..11 |-> IF pc = ProbeNote % 12
                                                                   THEN 0 - 14 * CentUnit
                                                                   ELSE 0]]
    /\ audio = AudioInitial
    /\ main = MainInitial(FALSE, "no_client")
    /\ mts = MtsInitial("none")
    /\ now = StartTime
    /\ device = DeviceInitial
    /\ lastOp = Loaded(MaxIdEvents)
    /\ channelPool = MPE_MEMBER_CHANNELS
    /\ activeNotes = <<>>
    /\ channelUsageOrder = <<>>
    /\ pitchBendRangeInitialized = FALSE
    /\ currentKey = Null
    /\ lastCall = [op |-> "init", id |-> Null, ret |-> [kind |-> "null"],
                   fresh |-> 0, others |-> 0, steals |-> 0, peak |-> 0]
    /\ held = {}
    /\ probe = [fn |-> "probe", midiInput |-> 1, listeners |-> {}, waits |-> <<>>,
                started |-> 0, finished |-> 0, thrown |-> 0, inputChanges |-> 0,
                output |-> 0, answered |-> FALSE]

\* another output device is chosen: the 'change' listener up to its first await
IdSelectOutput ==
    /\ lastOp.left > 0
    /\ probe.started < MaxProbes
    /\ \E out \in OutputDevices \ {probe.output} :
         \E s \in {probeIdentity([x |-> midiOutSelected(Scr),
                                  p |-> [probe EXCEPT !.started = @ + 1, !.output = out,
                                                      !.answered = FALSE]], now)} :
           ProbeRan(s, "midiOutSelectChange", <<out>>, 1, 0)
    /\ UNCHANGED now

\* the selected device answers a request, if it is the one that answers
IdDeviceReplies ==
    /\ lastOp.left > 0
    /\ probe.output = AnsweringDevice
    /\ \E kind \in {"identity", "dump"} :
         /\ \E w \in 1..Len(probe.waits) : probe.waits[w].pending /\ probe.waits[w].kind = kind
         /\ \E s \in {DispatchSysex([x |-> Scr,
                                     p |-> [probe EXCEPT !.answered = @ \/ kind = "identity"]],
                                    probe.midiInput, kind, 1, now)} :
              ProbeRan(s, "sysex", <<probe.midiInput, kind>>, 1, 0)
    /\ UNCHANGED now

NextDeviceId ==
    \/ IdSelectOutput
    \/ IdDeviceReplies
    \/ ProbeTimeout
    \/ ProbeNoteOn
    \/ ProbeNoteOff
    \/ ProbeTime

SpecDeviceId == InitDeviceId /\ [][NextDeviceId]_vars

\* the ids the selected output device has reported since it was selected
ReportedIds == IF probe.answered THEN {RepliedDeviceId} ELSE {}

\* the single-note tuning messages of the last step
TuningMessagesSent ==
    {i \in 1..Len(lastOp.sent) : lastOp.sent[i].kind = "singleNote"}

\* C34: every single-note tuning message carries as device id the broadcast
\* id 0x7F or the id that the currently selected output device has reported;
\* the id of a device selected before is not used once the output has been
\* changed to a device that does not answer the identity request.
C34_DeviceIdOfSelectedOutput ==
    lastOp.op = "onNoteOn" =>
      \A i \in TuningMessagesSent :
        lastOp.sent[i].deviceId \in {Broadcast} \cup ReportedIds

\* the same while the output has been chosen once only
C34_DeviceIdOfFirstOutput ==
    (lastOp.op = "onNoteOn" /\ probe.started <= 1) =>
      \A i \in TuningMessagesSent :
        lastOp.sent[i].deviceId \in {Broadcast} \cup ReportedIds

\* a note-on after the change to the silent device carries the id of the
\* device selected before
C34_StaleDeviceId ==
    /\ lastOp.op = "onNoteOn"
    /\ probe.output = SilentDevice
    /\ ~probe.answered
    /\ \E i \in TuningMessagesSent : lastOp.sent[i].deviceId = RepliedDeviceId

\* a note-on to the answering device carries the id it reported
C34_ReportedIdUsed ==
    /\ lastOp.op = "onNoteOn"
    /\ probe.output = AnsweringDevice
    /\ \E i \in TuningMessagesSent : lastOp.sent[i].deviceId = RepliedDeviceId

----------------------------------------------------------------------------
(* The seen prediction ids and the queued entries (main.js applyJITuning,   *)
(* applyTuning, applyPredictiveTuning, resetPredictiveState).               *)

MaxQueueEvents == 4

\* the note_id values the server sends: a counter that starts at 0
PredictionIds == {0, 7}

PredictedEntry(id, timestamp) ==
    [note_id |-> id, kind |-> "cents", cents |-> 14 * CentUnit, ratio |-> <<1, 1>>,
     timestamp |-> timestamp, source |-> "score", key |-> Null, is_minor |-> FALSE]

PredictedTables ==
    {<<>>} \cup {<<[pitch |-> pitch, entry |-> PredictedEntry(id, timestamp)]>> :
                   pitch \in EngineNotes, id \in PredictionIds,
                   timestamp \in {0, now \div 1000}}

InitQueue ==
    /\ main = MainInitial(TRUE, "following")
    /\ mts = MtsInitial("none")
    /\ now = StartTime
    /\ device = DeviceInitial
    /\ lastOp = Loaded(MaxQueueEvents)
    /\ script = ScriptInitial("main.js")
    /\ audio = AudioInitial
    /\ channelPool = MPE_MEMBER_CHANNELS
    /\ activeNotes = <<>>
    /\ channelUsageOrder = <<>>
    /\ pitchBendRangeInitialized = FALSE
    /\ currentKey = Null
    /\ lastCall = [op |-> "init", id |-> Null, ret |-> [kind |-> "null"],
                   fresh |-> 0, others |-> 0, steals |-> 0, peak |-> 0]
    /\ held = {}
    /\ probe = IdleProbe

\* the two-stage client calls window.applyJITuning(ratioTable)
DeliverPredictions ==
    /\ lastOp.left > 0
    /\ \E items \in PredictedTables :
         \E e \in {applyJITuning(Eng, items)} : Handled(e, "applyJITuning", items)

NextQueue == StartSystem \/ NoteOn \/ DeliverPredictions \/ Tick

SpecQueue == InitQueue /\ [][NextQueue]_vars

\* the entries of the per-pitch queues, as <<pitch, position>> pairs
QueuedAt ==
    {<<pitch, i>> : pitch \in DOMAIN main.predictiveJITable, i \in 1..MaxQueueEvents}
      \cap {pi \in (DOMAIN main.predictiveJITable) \X (1..MaxQueueEvents) :
              pi[2] <= Len(main.predictiveJITable[pi[1]])}

QueuedIds == {main.predictiveJITable[pi[1]][pi[2]].note_id : pi \in QueuedAt}

NeverQueuedTwice ==
    \A a \in QueuedAt, b \in QueuedAt :
       main.predictiveJITable[a[1]][a[2]].note_id = main.predictiveJITable[b[1]][b[2]].note_id
          => a = b

\* C35: after any sequence of predictive deliveries, note-ons and resets the
\* set of seen prediction ids is the set of the note_id values of the queued
\* entries, and no id is queued twice at the same time (so that the id of a
\* consumed or discarded entry can be delivered and queued again)
C35_SeenIdsAreQueuedIds ==
    /\ main.predictiveSeenIds = QueuedIds
    /\ NeverQueuedTwice

\* what holds: the ids other than 0 are seen exactly while they are queued, and
\* no id is queued twice
C35_TruthyIdsSeenWhileQueued ==
    /\ main.predictiveSeenIds \ {0} = QueuedIds \ {0}
    /\ QueuedIds \subseteq main.predictiveSeenIds
    /\ NeverQueuedTwice

\* the entry with note_id 0 was consumed by a note-on, and its next delivery is
\* ignored: the id is still in the seen set and nothing is queued
C35_ZeroIdNotQueuedAgain ==
    /\ lastOp.op = "applyJITuning"
    /\ Len(lastOp.arg) = 1
    /\ lastOp.arg[1].entry.note_id = 0
    /\ main.predictiveJITable = lastOp.before.predictiveJITable
    /\ 0 \in main.predictiveSeenIds
    /\ 0 \notin QueuedIds

\* an entry with another id is consumed and queued again by its next delivery
C35_TruthyIdQueuedAgain ==
    /\ lastOp.op = "applyJITuning"
    /\ Len(lastOp.arg) = 1
    /\ lastOp.arg[1].entry.note_id = 7
    /\ lastOp.before.predictiveJITable = <<>>
    /\ 7 \in QueuedIds
    /\ lastOp.ticks > 0

----------------------------------------------------------------------------
(* The tuning mode of tuning-mts.js under its four mode functions, called   *)
(* as main.js calls them: with the selected output, the SysEx permission    *)
(* initMIDI obtained and the key of the key detector.                       *)

MaxModeEvents == 5

InitMode ==
    /\ \E sysexEnabled \in BOOLEAN, outputId \in BOOLEAN :
         main = [MainInitial(sysexEnabled, "no_client") EXCEPT !.selectedOutput = outputId]
    /\ \E tuningModePreference \in {"none", "MPE"} : mts = MtsInitial(tuningModePreference)
    /\ now = 0
    /\ device = DeviceInitial
    /\ lastOp = Loaded(MaxModeEvents)
    /\ script = ScriptInitial("main.js")
    /\ audio = AudioInitial
    /\ channelPool = MPE_MEMBER_CHANNELS
    /\ activeNotes = <<>>
    /\ channelUsageOrder = <<>>
    /\ pitchBendRangeInitialized = FALSE
    /\ currentKey \in {Null, KeyName(7, FALSE)}
    /\ lastCall = [op |-> "init", id |-> Null, ret |-> [kind |-> "null"],
                   fresh |-> 0, others |-> 0, steals |-> 0, peak |-> 0]
    /\ held = {}
    /\ probe = IdleProbe

CallDetectMTSSupport ==
    /\ lastOp.left > 0
    /\ \E e \in {detectMTSSupport(Eng)} : Handled(e, "detectMTSSupport", <<>>)

CallSwitchToMPEMode ==
    /\ lastOp.left > 0
    /\ \E e \in {switchToMPEMode(Eng)} : Handled(e, "switchToMPEMode", <<>>)

CallSwitchToMTSMode ==
    /\ lastOp.left > 0
    /\ \E e \in {switchToMTSMode(Eng)} : Handled(e, "switchToMTSMode", <<>>)

CallResetMTSDetection ==
    /\ lastOp.left > 0
    /\ \E e \in {resetMTSDetection(Eng)} : Handled(e, "resetMTSDetection", <<>>)

NextMode ==
    CallDetectMTSSupport \/ CallSwitchToMPEMode \/ CallSwitchToMTSMode \/ CallResetMTSDetection

SpecMode == InitMode /\ [][NextMode]_vars

\* isMTSSupported()
isMTSSupported == mts.mtsSupported

\* getTuningMode()
getTuningMode == mts.currentTuningMode

\* C36: after any sequence of detectMTSSupport, switchToMPEMode,
\* switchToMTSMode and resetMTSDetection calls, isMTSSupported() is true exactly
\* when the tuning mode is 'MTS', and whenever the fallback flag is set MTS is
\* not supported.
C36_SupportedExactlyInModeMTS ==
    /\ isMTSSupported <=> getTuningMode = "MTS"
    /\ mts.mtsFallbackRequested => ~isMTSSupported

\* detection chose MPE, the stored preference, and a switch to MTS follows
C36_Witness ==
    /\ lastOp.op = "switchToMTSMode"
    /\ mts.mtsDetectionAttempted
    /\ ~lastOp.before.mtsSupported
    /\ isMTSSupported
    /\ getTuningMode = "MTS"
    /\ pitchBendRangeInitialized
    /\ ~mts.mtsFallbackRequested

\* C37: switchToMTSMode called without SysEx permission returns false and
\* changes nothing: the tuning mode, the supported flag, the fallback flag and
\* the persisted preference keep their values and no message is sent to the
\* output.
C37_RefusedSwitchChangesNothing ==
    [][(lastOp'.op = "switchToMTSMode" /\ ~main.sysexEnabled)
         => /\ lastOp'.ret = [kind |-> "boolean", value |-> FALSE]
            /\ mts' = mts
            /\ lastOp'.sent = <<>>
            /\ device' = device]_vars

\* the switch is refused after detection has chosen MPE for want of permission
C37_Witness ==
    /\ lastOp.op = "switchToMTSMode"
    /\ ~main.sysexEnabled
    /\ main.selectedOutput
    /\ lastOp.ret = [kind |-> "boolean", value |-> FALSE]
    /\ getTuningMode = "MPE"
    /\ mts.mtsFallbackRequested
    /\ mts.mtsDetectionAttempted

----------------------------------------------------------------------------
(* midi-file-tuner.js: analyzeKeyChanges.  A piece is given by its duration *)
(* in seconds and, for each window of segmentDurationSeconds, the notes the *)
(* filter of the loop selects: how many they are, and the key and the       *)
(* confidence the ensemble finds in them.                                   *)

segmentDurationSeconds == 4
minNotesPerSegment == 8

MaxDurationSeconds == 13

\* detectKeyFromNotes(notes): null below minNotesPerSegment
detectKeyFromNotes(notes) ==
    IF notes.noteCount < minNotesPerSegment
    THEN Null
    ELSE [key |-> notes.key, confidence |-> notes.confidence]

\* one pass of the while loop: the segment pushed for window i
SegmentAt(midiData, currentTime, i) ==
    Bind(detectKeyFromNotes(midiData.segmentNotes[i]),
         LAMBDA detection :
           [startTime |-> currentTime,
            endTime |-> Min(currentTime + segmentDurationSeconds, midiData.durationSeconds),
            key |-> IF detection # Null THEN detection.key ELSE Null,
            confidence |-> IF detection # Null THEN detection.confidence ELSE 0,
            noteCount |-> midiData.segmentNotes[i].noteCount])

RECURSIVE WindowSegments(_, _, _)
WindowSegments(midiData, currentTime, i) ==
    IF currentTime < midiData.durationSeconds
    THEN <<SegmentAt(midiData, currentTime, i)>>
           \o WindowSegments(midiData,
                             Min(currentTime + segmentDurationSeconds, midiData.durationSeconds),
                             i + 1)
    ELSE <<>>

RECURSIVE MergeFrom(_, _, _)
MergeFrom(merged, segments, i) ==
    IF i > Len(segments)
    THEN merged
    ELSE IF segments[i].key = merged[Len(merged)].key
    THEN MergeFrom([merged EXCEPT
                      ![Len(merged)].endTime = segments[i].endTime,
                      ![Len(merged)].noteCount = @ + segments[i].noteCount,
                      ![Len(merged)].confidence = RoundDiv(@ + segments[i].confidence, 2)],
                   segments, i + 1)
    ELSE MergeFrom(Append(merged, segments[i]), segments, i + 1)

\* mergeConsecutiveKeys(segments)
mergeConsecutiveKeys(segments) ==
    IF Len(segments) = 0 THEN segments ELSE MergeFrom(<<segments[1]>>, segments, 2)

\* the first loop of fillMissingKeys: the first key there is, or 'C'
FirstKey(segments) ==
    IF \E i \in 1..Len(segments) : segments[i].key # Null
    THEN segments[CHOOSE i \in 1..Len(segments) :
                    /\ segments[i].key # Null
                    /\ \A j \in 1..(i - 1) : segments[j].key = Null].key
    ELSE KeyName(0, FALSE)

RECURSIVE FillFrom(_, _, _)
FillFrom(segments, lastKey, i) ==
    IF i > Len(segments)
    THEN segments
    ELSE IF segments[i].key = Null
    THEN FillFrom([segments EXCEPT ![i].key = lastKey, ![i].confidence = 0], lastKey, i + 1)
    ELSE FillFrom(segments, segments[i].key, i + 1)

\* fillMissingKeys(segments), as the array it leaves
fillMissingKeys(segments) == FillFrom(segments, FirstKey(segments), 1)

\* analyzeKeyChanges(midiData)
analyzeKeyChanges(midiData) ==
    IF \A i \in 1..Len(midiData.segmentNotes) : midiData.segmentNotes[i].noteCount = 0
    THEN <<[startTime |-> 0, endTime |-> 0, key |-> KeyName(0, FALSE), confidence |-> 0,
            noteCount |-> 0]>>
    ELSE fillMissingKeys(mergeConsecutiveKeys(WindowSegments(midiData, 0, 1)))

\* summary.keyChanges of processMIDIForJI
keyChanges(keySegments) == Len(keySegments)

\* what the filter of a window can select: nothing, or enough notes for a key
WindowNotes ==
    {[noteCount |-> 0, key |-> Null, confidence |-> 0],
     [noteCount |-> minNotesPerSegment, key |-> KeyName(0, FALSE), confidence |-> 40],
     [noteCount |-> minNotesPerSegment, key |-> KeyName(7, FALSE), confidence |-> 75]}

Windows(durationSeconds) ==
    (durationSeconds + segmentDurationSeconds - 1) \div segmentDurationSeconds

Pieces ==
    UNION {{[durationSeconds |-> durationSeconds, segmentNotes |-> segmentNotes] :
              segmentNotes \in [1..Windows(durationSeconds) -> WindowNotes]} :
           durationSeconds \in 1..MaxDurationSeconds}

outsideTuner == <<mpeVars, drvVars, keyVars, engVars>>

InitTuner ==
    /\ probe = IdleProbe
    /\ OutsideTuningInit

CallAnalyzeKeyChanges ==
    /\ probe = IdleProbe
    /\ \E midiData \in Pieces :
         probe' = [fn |-> "analyzeKeyChanges", midiData |-> midiData,
                   ret |-> analyzeKeyChanges(midiData)]
    /\ UNCHANGED outsideTuner

NextTuner == CallAnalyzeKeyChanges

SpecTuner == InitTuner /\ [][NextTuner]_vars

\* analyzeKeyChanges has returned the segments of a piece that has notes
KeySegmentsReturned ==
    /\ probe.fn = "analyzeKeyChanges"
    /\ \E i \in 1..Len(probe.midiData.segmentNotes) : probe.midiData.segmentNotes[i].noteCount > 0

\* the segments cover the piece from 0 to its duration, contiguously, in order
CoversPiece(segments, durationSeconds) ==
    /\ Len(segments) > 0
    /\ segments[1].startTime = 0
    /\ segments[Len(segments)].endTime = durationSeconds
    /\ \A i \in 1..Len(segments) : segments[i].startTime < segments[i].endTime
    /\ \A i \in 1..(Len(segments) - 1) : segments[i].endTime = segments[i + 1].startTime

\* C38: analyzeKeyChanges returns segments that cover the piece from 0 to its
\* duration contiguously and in time order, each with a non-null key, and no
\* two consecutive returned segments have the same key, so that the number of
\* returned segments, reported as keyChanges, counts the distinct key regions.
C38_SegmentsAreKeyRegions ==
    KeySegmentsReturned
      => /\ CoversPiece(probe.ret, probe.midiData.durationSeconds)
         /\ \A i \in 1..Len(probe.ret) : probe.ret[i].key # Null
         /\ \A i \in 1..(Len(probe.ret) - 1) : probe.ret[i].key # probe.ret[i + 1].key

\* what holds: the segments cover the piece in order and each has a key
C38_CoveredWithKeys ==
    KeySegmentsReturned
      => /\ CoversPiece(probe.ret, probe.midiData.durationSeconds)
         /\ \A i \in 1..Len(probe.ret) : probe.ret[i].key # Null

\* a window without a key between two windows in G: three segments in G, and
\* keyChanges is 3 for a piece that stays in one key
C38_OneKeyThreeSegments ==
    /\ KeySegmentsReturned
    /\ keyChanges(probe.ret) = 3
    /\ \A i \in 1..Len(probe.ret) : probe.ret[i].key = KeyName(7, FALSE)

----------------------------------------------------------------------------
(* tuning-mts.js: the three frequency bytes of a single-note tuning         *)

MaxSemitoneOffset == 2

\* the parts of a semitone tried, in units: none, the least, a half, the
\* greatest below the cap of 99.9939 cents, the least above it, the greatest
FractionsTried == {0, 1, 50 * CentUnit, FractionCap, FractionCap + 1, 100 * CentUnit - 1}

FrequencyNotes == 0..127

FrequencyCents ==
    {k * 100 * CentUnit + f : k \in (0 - MaxSemitoneOffset)..MaxSemitoneOffset, f \in FractionsTried}

outsideFrequency == <<mpeVars, drvVars, keyVars, engVars>>

InitFrequency ==
    /\ probe = IdleProbe
    /\ OutsideTuningInit

CallCentsToMTSFrequencyData ==
    /\ probe = IdleProbe
    /\ \E note \in FrequencyNotes, cents \in FrequencyCents :
         probe' = [fn |-> "centsToMTSFrequencyData", note |-> note, cents |-> cents,
                   ret |-> centsToMTSFrequencyData(note, cents)]
    /\ UNCHANGED outsideFrequency

\* buildSingleNoteTuning(noteNumber, centsOffset): the bytes after the note number
CallBuildSingleNoteTuning ==
    /\ probe = IdleProbe
    /\ \E note \in FrequencyNotes, cents \in FrequencyCents :
         probe' = [fn |-> "buildSingleNoteTuning", note |-> note, cents |-> cents,
                   ret |-> buildSingleNoteTuning(note, cents).data]
    /\ UNCHANGED outsideFrequency

NextFrequency == CallCentsToMTSFrequencyData \/ CallBuildSingleNoteTuning

SpecFrequency == InitFrequency /\ [][NextFrequency]_vars

FrequencyDataBuilt == probe.fn \in {"centsToMTSFrequencyData", "buildSingleNoteTuning"}

\* floor((100 * note + cents) / 100)
TargetOfFrequencyData == (probe.note * 100 * CentUnit + probe.cents) \div (100 * CentUnit)

\* C39: centsToMTSFrequencyData(note, cents), for every note 0..127 and every
\* cents offset, returns three bytes each at most 0x7F and never the reserved
\* triple 7F 7F 7F; the semitone byte is floor((100*note + cents)/100) when that
\* lies in 0..127, a target below semitone 0 yields 00 00 00 and a target above
\* semitone 127 yields 7F 7F 7E.
C39_FrequencyDataBytes ==
    FrequencyDataBuilt
      => /\ Len(probe.ret) = 3
         /\ \A i \in 1..3 : probe.ret[i] \in 0..127
         /\ probe.ret # <<127, 127, 127>>
         /\ TargetOfFrequencyData \in 0..127 => probe.ret[1] = TargetOfFrequencyData
         /\ TargetOfFrequencyData < 0 => probe.ret = <<0, 0, 0>>
         /\ TargetOfFrequencyData > 127 => probe.ret = <<127, 127, 126>>

\* note 127 raised by 99.999 cents: the fraction is capped, the data are 7F 7F 7E
C39_Witness ==
    /\ probe.fn = "centsToMTSFrequencyData"
    /\ probe.note = 127
    /\ probe.cents = 100 * CentUnit - 1
    /\ TargetOfFrequencyData = 127
    /\ probe.ret = <<127, 127, 126>>

----------------------------------------------------------------------------
(* predictiveTuningActive and the per-pitch queues                          *)

\* C40: after any sequence of predictive deliveries, note-ons and resets, the
\* flag predictiveTuningActive is true exactly when at least one per-pitch
\* predictive queue is non-empty, and the predictive table never holds an
\* empty queue.
C40_ActiveExactlyWhenQueued ==
    /\ main.predictiveTuningActive <=> SomeQueued(main.predictiveJITable)
    /\ \A pitch \in DOMAIN main.predictiveJITable : Len(main.predictiveJITable[pitch]) > 0

\* a note-on takes the last entry of its pitch while another pitch has one
\* queued: the emptied queue is gone and the flag stays set
C40_Witness ==
    /\ lastOp.op = "handleNoteOn"
    /\ Len(Lookup(lastOp.before.predictiveJITable, lastOp.arg[1], <<>>)) = 1
    /\ lastOp.arg[1] \notin DOMAIN main.predictiveJITable
    /\ DOMAIN main.predictiveJITable # {}
    /\ main.predictiveTuningActive

\* the flag falls when a note-on takes the last entry there is
C40_LastEntryTaken ==
    /\ lastOp.op = "handleNoteOn"
    /\ Len(Lookup(lastOp.before.predictiveJITable, lastOp.arg[1], <<>>)) = 1
    /\ main.predictiveJITable = <<>>
    /\ ~main.predictiveTuningActive

====
